---------------------------- MODULE Spec2Model ----------------------------
(***************************************************************************)
(* A model of the HIRT FEC simulator: the pipeline                         *)
(*   Source -> Encoder -> Dropper -> Decoder -> Sink                       *)
(* of src/lib.rs (Simulator::run), with the Maelstrom interleaved XOR      *)
(* codec of src/fec/maelstrom.rs, the Tart wrapper of src/fec/tart.rs and  *)
(* the drop schedulers of src/drop.                                        *)
(*                                                                         *)
(* Rust values are modelled as follows.                                    *)
(*   u64            a natural number (the runs stay far below 2^31)        *)
(*   Option<u64>    a natural number, or NoneU64                           *)
(*   Vec<u8>        a sequence of bytes                                    *)
(*   Vec<T>         a sequence                                             *)
(*   HashSet<T>     a set; an iteration over it is a choice of order       *)
(*   HashMap<K, V>  a function whose domain is the set of keys             *)
(*   Result<T>      a record with an err field ("Ok" or the Error variant) *)
(***************************************************************************)
EXTENDS Integers, Sequences, FiniteSets, TLC

(***************************************************************************)
(* Bounds of the model.                                                    *)
(***************************************************************************)
\* Packets of a run with a nondeterministic dropper (nb_packets of run).
MaxPackets == 6
\* Largest number of packets a random drop scheduler drops in one run.
MaxDrops == 3
\* Largest Maelstrom window of the explored configurations.
MaxWindow == 3
\* Largest decoder capacity of the explored configurations.
MaxCapacity == 2
\* Largest id of the packets add_fec_metadata is applied to on its own.
MaxProbeId == 2
\* Largest ssid of the packets handed to a Maelstrom decoder on its own.
MaxCallSsid == 2
\* Largest number of repairs a Maelstrom decoder on its own counts (eq_id).
MaxRsCalls == 1
\* Largest number of symbols a feedback of the compared runs reports on.
MaxTotal == 4
\* Largest number of feedbacks each of the compared runs is given.
MaxFeedbacks == 2
\* Largest number of packets handed to the encoder at once.
MaxBatch == 3

(***************************************************************************)
(* Integers and bytes.                                                     *)
(***************************************************************************)
NoneU64 == -1

Max(S) == CHOOSE x \in S : \A y \in S : y <= x

Min(S) == CHOOSE x \in S : \A y \in S : x <= y

\* u64::saturating_sub
SaturatingSub(a, b) == IF a >= b THEN a - b ELSE 0

RECURSIVE Shr8(_, _)
\* n >> (8 * k)
Shr8(n, k) == IF k = 0 THEN n ELSE Shr8(n \div 256, k - 1)

\* u64::to_be_bytes(n).to_vec(): eight bytes, the most significant first.
ToBeBytes(n) == [i \in 1..8 |-> Shr8(n, 8 - i) % 256]

RECURSIVE FromBeBytesAcc(_, _, _)
FromBeBytesAcc(b, i, acc) ==
    IF i > Len(b) THEN acc ELSE FromBeBytesAcc(b, i + 1, acc * 256 + b[i])

\* u64::from_be_bytes(data.try_into().unwrap()): defined on eight bytes only.
FromBeBytes(b) == FromBeBytesAcc(b, 1, 0)

RECURSIVE Xor(_, _)
\* The bitwise exclusive or of two u64.
Xor(a, b) ==
    IF a = 0 THEN b
    ELSE IF b = 0 THEN a
    ELSE (((a % 2) + (b % 2)) % 2) + 2 * Xor(a \div 2, b \div 2)

\* Every order in which the elements of a hash set can be iterated.
Orders(S) ==
    {s \in [1..Cardinality(S) -> S] : \A i, j \in DOMAIN s : i # j => s[i] # s[j]}

(***************************************************************************)
(* FEC metadata (src/fec/mod.rs) and packets (src/lib.rs).                 *)
(* Option<FecMetadata> is a record: tag "None", "Source" or "Repair";      *)
(* scheme "Maelstrom" or "Tart"; ssid is the source symbol id of a Source; *)
(* ssids the source symbols a Repair protects.                             *)
(***************************************************************************)
FecNone == [tag |-> "None", scheme |-> "None", ssid |-> 0, ssids |-> {}]

FecSourceMaelstrom(ssid) ==
    [tag |-> "Source", scheme |-> "Maelstrom", ssid |-> ssid, ssids |-> {}]

FecRepairMaelstrom(ssids) ==
    [tag |-> "Repair", scheme |-> "Maelstrom", ssid |-> 0, ssids |-> ssids]

FecSourceTart(metadata) ==
    [tag |-> "Source", scheme |-> "Tart", ssid |-> metadata, ssids |-> {}]

FecRepairTart(window) ==
    [tag |-> "Repair", scheme |-> "Tart", ssid |-> 0, ssids |-> window]

\* Packet::new
PacketNew(id) ==
    [id |-> id, fec |-> FecNone, recovered |-> NoneU64, data |-> ToBeBytes(id)]

\* Packet::new_recovered
PacketNewRecovered(id, from) ==
    [PacketNew(id) EXCEPT !.recovered = SaturatingSub(from, id)]

\* impl PartialEq for Packet: the id and the data, nothing else.
PacketEq(p, q) == p.id = q.id /\ p.data = q.data

\* An add_fec_metadata that overwrites the metadata a packet carries.
AddFecMetadataOverwrite(pkt, metadata) ==
    [pkt |-> [pkt EXCEPT !.fec = metadata], err |-> "Ok"]

\* Packet::add_fec_metadata: the packet afterwards and the Result.
AddFecMetadata(pkt, metadata) ==
    IF pkt.fec.tag # "None"
    THEN [pkt |-> pkt, err |-> "FecDoubleMetadata"]
    ELSE [pkt |-> [pkt EXCEPT !.fec = metadata], err |-> "Ok"]

RECURSIVE XorData(_, _)
\* self.fold(0, |cur, pkt| cur ^ u64::from_be_bytes(pkt.data)) over the packets
\* an iterator yields (exclusive or is commutative: the order does not matter).
XorData(S, cur) ==
    IF S = {} THEN cur
    ELSE LET p == CHOOSE q \in S : TRUE
         IN XorData(S \ {p}, Xor(cur, FromBeBytes(p.data)))

\* XorPackets::xor: the id and the payload of the result are the folded value.
XorPackets(S) ==
    LET data == XorData(S, 0)
    IN [id |-> data, fec |-> FecNone, recovered |-> NoneU64,
        data |-> ToBeBytes(data)]

(***************************************************************************)
(* The Maelstrom encoder (src/fec/maelstrom.rs).                           *)
(* interleaves[i][b + 1] is bin b of layer i.                              *)
(***************************************************************************)
\* Bin::new
BinNew(window_size) ==
    [symbols |-> {}, nb_rs |-> 0, window_size |-> window_size]

\* MaelstromEncoder::new
MaelstromEncoderNew(window, interleaves_values) ==
    [kind |-> "Maelstrom",
     ssid |-> 0,
     interleaves |-> [i \in DOMAIN interleaves_values |->
                        [b \in 1..interleaves_values[i] |-> BinNew(window)]],
     pkts |-> {},
     max_wnd |-> window]

\* The live set after pkts.drain().filter(|pkt| pkt.id > id_to_remove).
LiveAfterPrune(pkts, id_to_remove) == {p \in pkts : p.id > id_to_remove}

\* HashSet<Packet>::insert: nothing changes when an equal packet is present.
HashSetInsert(pkts, pkt) ==
    IF \E q \in pkts : PacketEq(q, pkt) THEN pkts ELSE pkts \cup {pkt}

\* A choice of bin that always takes the first bin of the layer.
BinIndexFirst(ssid, n) == 1

\* The index (from 1) of the bin of a layer of n bins that takes ssid.
BinIndex(ssid, n) == (ssid % n) + 1

\* MaelstromEncoder::protect_symbol: the encoder and the packet afterwards,
\* and the Result.
MaelstromProtectSymbol(enc, pkt) ==
    LET added == AddFecMetadata(pkt, FecSourceMaelstrom(enc.ssid))
        id_to_remove == SaturatingSub(enc.ssid, enc.max_wnd)
        live == HashSetInsert(LiveAfterPrune(enc.pkts, id_to_remove), added.pkt)
        layers == [i \in DOMAIN enc.interleaves |->
                     LET layer == enc.interleaves[i]
                         b == BinIndex(enc.ssid, Len(layer))
                     IN [layer EXCEPT ![b].symbols = @ \cup {enc.ssid}]]
    IN IF added.err # "Ok"
       THEN [enc |-> enc, pkt |-> pkt, err |-> added.err]
       ELSE [enc |-> [enc EXCEPT !.pkts = live,
                                 !.interleaves = layers,
                                 !.ssid = @ + 1],
             pkt |-> added.pkt,
             err |-> "Ok"]

\* A bin that waits for one ssid more than its window.
BinShouldGenerateRsLate(bin) == Cardinality(bin.symbols) > bin.window_size

\* Bin::should_generate_rs
BinShouldGenerateRs(bin) == Cardinality(bin.symbols) >= bin.window_size

\* The packets a bin folds into its repair: those of the live set whose id is
\* one of the bin's ssids.
BinProtected(bin, all_pkts) == {p \in all_pkts : p.id \in bin.symbols}

\* A bin whose repair lists only the ssids of the packets it folded.
BinRepairListsFolded(bin, all_pkts) ==
    AddFecMetadata(XorPackets(BinProtected(bin, all_pkts)),
                   FecRepairMaelstrom({p.id : p \in BinProtected(bin, all_pkts)})).pkt

\* Bin::generate_rs, the repair it returns when the bin is full. The ssid list
\* of the repair is the bin's hash set copied to a Vec; the decoder reads it as
\* a set and through its minimum only.
BinRepair(bin, all_pkts) ==
    AddFecMetadata(XorPackets(BinProtected(bin, all_pkts)),
                   FecRepairMaelstrom(bin.symbols)).pkt

\* Bin::generate_rs, the bin afterwards.
BinAfterGenerateRs(bin) ==
    IF BinShouldGenerateRs(bin)
    THEN [bin EXCEPT !.symbols = {}, !.nb_rs = @ + 1]
    ELSE bin

RECURSIVE LayerRepairsBackwards(_, _, _)
\* The repairs of a layer, the bin of the highest index first.
LayerRepairsBackwards(layer, b, all_pkts) ==
    IF b > Len(layer) THEN <<>>
    ELSE LayerRepairsBackwards(layer, b + 1, all_pkts)
         \o (IF BinShouldGenerateRs(layer[b])
             THEN <<BinRepair(layer[b], all_pkts)>>
             ELSE <<>>)

RECURSIVE LayerRepairs(_, _, _)
\* The repairs of the bins b, b + 1, ... of a layer, in the order of the bins.
LayerRepairs(layer, b, all_pkts) ==
    IF b > Len(layer) THEN <<>>
    ELSE (IF BinShouldGenerateRs(layer[b])
          THEN <<BinRepair(layer[b], all_pkts)>>
          ELSE <<>>) \o LayerRepairs(layer, b + 1, all_pkts)

RECURSIVE AllRepairs(_, _, _)
\* The repairs of the layers i, i + 1, ..., in the order of the layers.
AllRepairs(interleaves, i, all_pkts) ==
    IF i > Len(interleaves) THEN <<>>
    ELSE LayerRepairs(interleaves[i], 1, all_pkts)
         \o AllRepairs(interleaves, i + 1, all_pkts)

\* MaelstromEncoder::should_generate_rs
MaelstromShouldGenerateRs(enc) ==
    \E i \in DOMAIN enc.interleaves :
        \E b \in DOMAIN enc.interleaves[i] :
            BinShouldGenerateRs(enc.interleaves[i][b])

\* MaelstromEncoder::generate_rs: the encoder afterwards and the repairs.
MaelstromGenerateRs(enc) ==
    [enc |-> [enc EXCEPT !.interleaves =
                 [i \in DOMAIN enc.interleaves |->
                    [b \in DOMAIN enc.interleaves[i] |->
                       BinAfterGenerateRs(enc.interleaves[i][b])]]],
     out |-> AllRepairs(enc.interleaves, 1, enc.pkts),
     err |-> "Ok"]

(***************************************************************************)
(* The Maelstrom decoder (src/fec/maelstrom.rs).                           *)
(***************************************************************************)
\* An insert that evicts the entries whose key is smaller than the new one.
MapInsertEvicting(m, k, v) ==
    [x \in {y \in DOMAIN m : y > k} \cup {k} |-> IF x = k THEN v ELSE m[x]]

\* HashMap::insert: the value stored under an existing key is replaced.
MapInsert(m, k, v) == [x \in (DOMAIN m) \cup {k} |-> IF x = k THEN v ELSE m[x]]

\* HashMap::remove of every key of a set; a key that is absent is ignored.
MapRemoveAll(m, keys) == [x \in (DOMAIN m) \ keys |-> m[x]]

\* HashMap::values
MapValues(m) == {m[k] : k \in DOMAIN m}

EmptyMap == [x \in {} |-> 0]

\* Equation::new, on a packet that carries Maelstrom repair metadata.
EquationNew(repair, id) ==
    [recv_ssid |-> {}, need_ssid |-> repair.fec.ssids, repair |-> repair,
     id |-> id]

\* An action that never finds an equation solvable.
EquationActionNeverRecover(eq) ==
    IF Cardinality(eq.need_ssid) = Cardinality(eq.recv_ssid)
    THEN "Redundant" ELSE "Missing"

\* Equation::action
EquationAction(eq) ==
    LET missing == SaturatingSub(Cardinality(eq.need_ssid),
                                 Cardinality(eq.recv_ssid))
    IN IF missing = 0 THEN "Redundant"
       ELSE IF missing = 1 THEN "Recover"
       ELSE "Missing"

\* A populate that fills nothing in.
EquationPopulateNothing(eq, pkts) == eq

\* Equation::populate
EquationPopulate(eq, pkts) ==
    [eq EXCEPT !.recv_ssid =
        @ \cup {p.id : p \in {q \in MapValues(pkts) : q.id \in eq.need_ssid}}]

\* An add_symbol that records every symbol, needed or not.
EquationAddSymbolAlways(eq, id) == [eq EXCEPT !.recv_ssid = @ \cup {id}]

\* Equation::add_symbol
EquationAddSymbol(eq, id) ==
    IF id \in eq.need_ssid
    THEN [eq EXCEPT !.recv_ssid = @ \cup {id}]
    ELSE eq

\* An equation that takes any symbol it needs for the missing one.
EquationAnySsid(eq) == CHOOSE s \in eq.need_ssid : TRUE

\* The source symbol an equation recovers: an element of need_ssid that is not
\* in recv_ssid (the only one when the action is Recover and recv_ssid is a
\* subset of need_ssid).
EquationMissingSsid(eq) == CHOOSE s \in eq.need_ssid \ eq.recv_ssid : TRUE

\* Equation::recover when the action is Recover: the equation afterwards and
\* the recovered packet. The payload is the fold of the packets of the map whose
\* id the equation needs, chained with the repair.
EquationRecover(eq, pkts) ==
    LET known == {p \in MapValues(pkts) : p.id \in eq.need_ssid}
        data == XorData(known, FromBeBytes(eq.repair.data))
        ssid == EquationMissingSsid(eq)
    IN [eq |-> [eq EXCEPT !.recv_ssid = @ \cup {ssid}],
        pkt |-> [id |-> ssid, fec |-> FecSourceMaelstrom(ssid),
                 recovered |-> NoneU64, data |-> ToBeBytes(data)]]

\* Equation::get_min_ssid
EquationGetMinSsid(eq) == Min(eq.need_ssid)

\* MaelstromDecoder::new
MaelstromDecoderNew(capacity) ==
    [kind |-> "Maelstrom", equations |-> EmptyMap, max_ssid |-> 0, eq_id |-> 0,
     pkts |-> EmptyMap, capacity |-> capacity]

\* The value recv_ss hands to the equations in the next iteration of its loop
\* after it recovered rec: metadata = u64::from_be_bytes(rec.data).
NextMetadata(rec) == FromBeBytes(rec.data)

\* The key under which recv_rs stores the equation it created with id eq_id:
\* self.eq_id is incremented between Equation::new and equations.insert.
EquationKey(eq_id) == eq_id + 1

RECURSIVE RecvSsLoop(_, _, _, _, _, _, _)
\* The loop of MaelstromDecoder::recv_ss from one of its iterations on: every
\* state it can end in. The scan for an equation to solve follows the hash
\* map's iteration order, so any solvable equation may be the one it finds.
\* order lists the packets of recovered as the loop put them there.
RecvSsLoop(equations, pkts, metadata, ids_to_remove, recovered, order, pkt) ==
    LET added == [k \in DOMAIN equations |->
                    EquationAddSymbol(equations[k], metadata)]
        to_remove == ids_to_remove \cup
            {added[k].id : k \in {j \in DOMAIN added :
                                    EquationAction(added[j]) = "Redundant"}}
        solvable == {k \in DOMAIN added :
                        /\ EquationAction(added[k]) = "Recover"
                        /\ added[k].id \notin to_remove}
    IN IF solvable = {}
       THEN {[equations |-> added, pkts |-> pkts, ids_to_remove |-> to_remove,
              recovered |-> recovered, order |-> order]}
       ELSE UNION {
              LET r == EquationRecover(added[k], pkts)
                  rec == [r.pkt EXCEPT
                            !.recovered = SaturatingSub(pkt.id, r.pkt.id)]
              IN RecvSsLoop([added EXCEPT ![k] = r.eq],
                            MapInsert(pkts, rec.id, rec),
                            NextMetadata(rec),
                            to_remove,
                            HashSetInsert(recovered, rec),
                            IF \E q \in recovered : PacketEq(q, rec)
                            THEN order ELSE Append(order, rec),
                            pkt) : k \in solvable}

\* A recv_ss that stores the packet before it looks at its metadata.
MaelstromRecvSsStoresFirst(dec, pkt) ==
    IF ~(pkt.fec.tag = "Source" /\ pkt.fec.scheme = "Maelstrom")
    THEN {[dec |-> [dec EXCEPT !.pkts = MapInsert(@, pkt.id, pkt)],
           recovered |-> {}, order |-> <<>>, err |-> "FecWrongMetadata"]}
    ELSE LET metadata == pkt.fec.ssid
             pkts == MapInsert(dec.pkts, pkt.id, pkt)
             max_ssid == IF metadata > dec.max_ssid THEN metadata
                         ELSE dec.max_ssid
         IN {[dec |-> [dec EXCEPT
                         !.pkts = o.pkts,
                         !.max_ssid = max_ssid,
                         !.equations = MapRemoveAll(o.equations,
                                                    o.ids_to_remove)],
              recovered |-> o.recovered,
              order |-> o.order,
              err |-> "Ok"] :
             o \in RecvSsLoop(dec.equations, pkts, metadata, {}, {}, <<>>,
                              pkt)}

\* MaelstromDecoder::recv_ss: every (decoder afterwards, packets returned,
\* Result) it can end with. The packets are returned as the set they are
\* collected from; the caller sees them in some order. order lists them as
\* the call recovered them.
MaelstromRecvSs(dec, pkt) ==
    IF ~(pkt.fec.tag = "Source" /\ pkt.fec.scheme = "Maelstrom")
    THEN {[dec |-> dec, recovered |-> {}, order |-> <<>>,
           err |-> "FecWrongMetadata"]}
    ELSE LET metadata == pkt.fec.ssid
             pkts == MapInsert(dec.pkts, pkt.id, pkt)
             max_ssid == IF metadata > dec.max_ssid THEN metadata
                         ELSE dec.max_ssid
         IN {[dec |-> [dec EXCEPT
                         !.pkts = o.pkts,
                         !.max_ssid = max_ssid,
                         !.equations = MapRemoveAll(o.equations,
                                                    o.ids_to_remove)],
              recovered |-> o.recovered,
              order |-> o.order,
              err |-> "Ok"] :
             o \in RecvSsLoop(dec.equations, pkts, metadata, {}, {}, <<>>,
                              pkt)}

\* A too-old test that leaves the capacity out.
TooOldWithoutCapacity(dec, ssids) == Min(ssids) < dec.max_ssid

\* Whether recv_rs refuses a repair as too old.
TooOld(dec, ssids) ==
    Min(ssids) < SaturatingSub(dec.max_ssid, dec.capacity)

\* MaelstromDecoder::recv_rs: every (decoder afterwards, packets returned,
\* Result) it can end with; action is how the new equation was classified.
MaelstromRecvRs(dec, pkt) ==
    IF ~(pkt.fec.tag = "Repair" /\ pkt.fec.scheme = "Maelstrom")
       \/ pkt.fec.ssids = {}
    THEN {[dec |-> dec, recovered |-> {}, order |-> <<>>,
           err |-> "FecWrongMetadata", action |-> "None"]}
    ELSE IF TooOld(dec, pkt.fec.ssids)
    THEN {[dec |-> dec, recovered |-> {}, order |-> <<>>,
           err |-> "TooOldEquation", action |-> "None"]}
    ELSE LET new_equation ==
                 EquationPopulate(EquationNew(pkt, dec.eq_id), dec.pkts)
             dec1 == [dec EXCEPT !.eq_id = @ + 1]
             action == EquationAction(new_equation)
         IN IF action = "Redundant"
            THEN {[dec |-> dec1, recovered |-> {}, order |-> <<>>,
                   err |-> "Ok", action |-> action]}
            ELSE IF action = "Missing"
            THEN {[dec |-> [dec1 EXCEPT !.equations =
                              MapInsert(@, EquationKey(dec.eq_id),
                                        new_equation)],
                   recovered |-> {}, order |-> <<>>, err |-> "Ok",
                   action |-> action]}
            ELSE LET r == EquationRecover(new_equation, dec.pkts)
                     rec == [r.pkt EXCEPT
                               !.recovered = SaturatingSub(pkt.id, r.pkt.id)]
                 IN {[dec |-> o.dec,
                      recovered |-> HashSetInsert(o.recovered, rec),
                      order |-> IF \E q \in o.recovered : PacketEq(q, rec)
                                THEN o.order ELSE <<rec>> \o o.order,
                      err |-> "Ok", action |-> action] :
                     o \in MaelstromRecvSs(dec1, rec)}

(***************************************************************************)
(* The linear-code kernel behind Tart (the networkcoding crate).  Its code *)
(* is not part of the repository; it is modelled as an ideal erasure code  *)
(* over the operations the wrapper calls: a repair symbol is one equation  *)
(* over the symbols protected when it was generated, different repairs are *)
(* independent, and a set of n equations with at most n unknown symbols    *)
(* between them decodes those symbols.  A repair symbol is the set of      *)
(* <<id, payload>> of the symbols it covers.                               *)
(***************************************************************************)
\* VLCEncoder::new
KernelEncoderNew == [next |-> 0, window |-> EmptyMap]

\* Encoder::next_metadata, read as a u64 (source_symbol_metadata_to_u64).
KernelNextMetadata(k) == k.next

\* Encoder::protect_data
KernelProtectData(k, data) ==
    [k EXCEPT !.window = MapInsert(@, k.next, data), !.next = @ + 1]

\* Encoder::n_protected_symbols
KernelNProtectedSymbols(k) == Cardinality(DOMAIN k.window)

\* Encoder::remove_up_to
KernelRemoveUpTo(k, id) ==
    [k EXCEPT !.window = MapRemoveAll(@, {x \in DOMAIN k.window : x <= id})]

\* Encoder::generate_and_serialize_repair_symbol, on a window that is not empty.
KernelGenerateRepair(k) == {<<x, k.window[x]>> : x \in DOMAIN k.window}

\* VLCDecoder::new
KernelDecoderNew == [known |-> EmptyMap, repairs |-> <<>>]

\* The symbols a repair covers that the decoder does not know.
KernelUnknown(known, repair) == {c \in repair : c[1] \notin DOMAIN known}

\* The symbols a decoder can decode in one step: the unknowns of a set of n
\* stored repairs that has at most n unknowns.
KernelDecodable(known, repairs) ==
    UNION {u \in {UNION {KernelUnknown(known, repairs[i]) : i \in S} :
                     S \in {T \in SUBSET DOMAIN repairs :
                              Cardinality(UNION {KernelUnknown(known, repairs[i]) :
                                                   i \in T})
                              <= Cardinality(T)}} : TRUE}

RECURSIVE KernelSolve(_, _, _)
\* Decode until nothing more can be decoded: the decoder afterwards and the
\* symbols decoded, in the order of their ids within a step.
KernelSolve(known, repairs, decoded) ==
    LET new == KernelDecodable(known, repairs)
        RECURSIVE Sorted(_)
        Sorted(S) == IF S = {} THEN <<>>
                     ELSE LET c == CHOOSE x \in S : \A y \in S : x[1] <= y[1]
                          IN <<c>> \o Sorted(S \ {c})
        RECURSIVE Learn(_, _)
        Learn(m, S) == IF S = {} THEN m
                       ELSE LET c == CHOOSE x \in S : TRUE
                            IN Learn(MapInsert(m, c[1], c[2]), S \ {c})
    IN IF new = {}
       THEN [k |-> [known |-> known,
                    repairs |-> SelectSeq(repairs,
                        LAMBDA r : KernelUnknown(known, r) # {})],
             decoded |-> decoded]
       ELSE KernelSolve(Learn(known, new), repairs, decoded \o Sorted(new))

\* Decoder::receive_source_symbol: the kernel afterwards and the payloads of
\* the symbols it decoded.
KernelReceiveSourceSymbol(k, metadata, data) ==
    KernelSolve(MapInsert(k.known, metadata, data), k.repairs, <<>>)

\* A repair symbol that brings nothing: DecoderError::UnusedRepairSymbol.
KernelUnused(k, repair) == KernelUnknown(k.known, repair) = {}

\* Decoder::receive_and_deserialize_repair_symbol of a repair that is used.
KernelReceiveRepairSymbol(k, repair) ==
    KernelSolve(k.known, Append(k.repairs, repair), <<>>)

(***************************************************************************)
(* The Tart encoder, its window-step scheduler and the Tart decoder        *)
(* (src/fec/tart.rs).                                                      *)
(***************************************************************************)
\* WindowStepScheduler::new
WindowStepSchedulerNew(max_wnd, step) ==
    [kind |-> "WindowStep", max_wnd |-> max_wnd, step |-> step, last_sent |-> 0]

(***************************************************************************)
(* The f64 values of the adaptive scheduler, as exact fractions <<n, d>>    *)
(* with d > 0 in lowest terms: the arithmetic of the code without its       *)
(* rounding.                                                                *)
(***************************************************************************)
RECURSIVE Gcd(_, _)
Gcd(a, b) == IF b = 0 THEN a ELSE Gcd(b, a % b)

F64Abs(n) == IF n < 0 THEN -n ELSE n

\* The fraction n / d, d > 0, in lowest terms.
F64(n, d) ==
    LET g == Gcd(F64Abs(n), d)
    IN IF n = 0 THEN <<0, 1>> ELSE <<n \div g, d \div g>>

\* u64 as f64
F64Of(n) == <<n, 1>>

F64Add(x, y) == F64(x[1] * y[2] + y[1] * x[2], x[2] * y[2])

F64Sub(x, y) == F64(x[1] * y[2] - y[1] * x[2], x[2] * y[2])

F64Mul(x, y) == F64(x[1] * y[1], x[2] * y[2])

\* f64::abs
F64AbsOf(x) == <<F64Abs(x[1]), x[2]>>

\* x >= y
F64Geq(x, y) == x[1] * y[2] >= y[1] * x[2]

\* AdaptiveFecScheduler::new
AdaptiveFecSchedulerNew(alpha, wsize) ==
    [kind |-> "Adaptive", loss_estimation |-> F64Of(0),
     loss_variance_estimation |-> F64Of(0), alpha |-> alpha,
     last_sent_ssid |-> 0, wsize |-> wsize, beta |-> F64Of(1)]

\* AdaptiveFecScheduler::set_initial_loss_estimation
SetInitialLossEstimation(sched, initial_loss) ==
    [sched EXCEPT !.loss_estimation = initial_loss]

\* AdaptiveFecScheduler::set_beta_fec
SetBetaFec(sched, beta) == [sched EXCEPT !.beta = beta]

\* nb_lost_pkt_per_window of AdaptiveFecScheduler::should_generate_rs
NbLostPktPerWindow(sched) ==
    F64Mul(F64Mul(F64Add(sched.loss_estimation,
                         F64Mul(sched.beta, sched.loss_variance_estimation)),
                  F64Of(sched.wsize)),
           sched.beta)

\* An adaptive should_generate_rs that asks for a repair every wsize-th symbol
\* whatever the estimate.
AdaptiveShouldGenerateRsFixed(sched, current) ==
    SaturatingSub(current, sched.last_sent_ssid) >= sched.wsize

\* AdaptiveFecScheduler::should_generate_rs. next_rs = wsize / nb_lost is
\* compared without the division: it is +inf (or NaN) when nb_lost is 0, and
\* then nothing is >= it; when nb_lost is negative the quotient is <= 0.
AdaptiveShouldGenerateRs(sched, current) ==
    IF sched.loss_estimation = F64Of(0) THEN FALSE
    ELSE LET nb_lost_pkt_per_window == NbLostPktPerWindow(sched)
             elapsed == F64Of(SaturatingSub(current, sched.last_sent_ssid))
         IN IF nb_lost_pkt_per_window[1] = 0 THEN FALSE
            ELSE IF nb_lost_pkt_per_window[1] > 0
            THEN F64Geq(F64Mul(elapsed, nb_lost_pkt_per_window),
                        F64Of(sched.wsize))
            ELSE TRUE

\* An adaptive recv_feedback that takes a feedback without elements as a
\* feedback without loss.
AdaptiveRecvFeedbackNoGuard(sched, nb_lost, nb_elems) ==
    LET local_loss == IF nb_elems = 0 THEN F64Of(0) ELSE F64(nb_lost, nb_elems)
        local_variance == F64AbsOf(F64Sub(sched.loss_estimation, local_loss))
        keep == sched.alpha
        take == F64Sub(F64Of(1), sched.alpha)
    IN [sched EXCEPT
          !.loss_estimation = F64Add(F64Mul(@, keep), F64Mul(take, local_loss)),
          !.loss_variance_estimation =
              F64Add(F64Mul(@, keep), F64Mul(take, local_variance))]

\* AdaptiveFecScheduler::recv_feedback
AdaptiveRecvFeedback(sched, nb_lost, nb_elems) ==
    IF nb_elems = 0 THEN sched
    ELSE LET local_loss == F64(nb_lost, nb_elems)
             local_variance == F64AbsOf(F64Sub(sched.loss_estimation, local_loss))
             keep == sched.alpha
             take == F64Sub(F64Of(1), sched.alpha)
         IN [sched EXCEPT
               !.loss_estimation =
                   F64Add(F64Mul(@, keep), F64Mul(take, local_loss)),
               !.loss_variance_estimation =
                   F64Add(F64Mul(@, keep), F64Mul(take, local_variance))]

\* TartFecScheduler::should_generate_rs
SchedulerShouldGenerateRs(sched, current) ==
    IF sched.kind = "Adaptive" THEN AdaptiveShouldGenerateRs(sched, current)
    ELSE SaturatingSub(current, sched.last_sent) >= sched.step

\* An on_sent_rs that moves last_sent one id forward only.
SchedulerOnSentRsByOne(sched, current) ==
    [sched EXCEPT !.last_sent = @ + 1]

\* TartFecScheduler::on_sent_rs
SchedulerOnSentRs(sched, current) ==
    IF sched.kind = "Adaptive" THEN [sched EXCEPT !.last_sent_ssid = current]
    ELSE [sched EXCEPT !.last_sent = current]

\* A recv_feedback that takes the number of lost symbols as the id of the last
\* repair.
SchedulerRecvFeedbackAsSent(sched, nb_lost, nb_elems) ==
    IF sched.kind = "Adaptive" THEN [sched EXCEPT !.last_sent_ssid = nb_lost]
    ELSE [sched EXCEPT !.last_sent = nb_lost]

\* TartFecScheduler::recv_feedback
SchedulerRecvFeedback(sched, nb_lost, nb_elems) ==
    IF sched.kind = "Adaptive" THEN AdaptiveRecvFeedback(sched, nb_lost, nb_elems)
    ELSE sched

\* TartEncoder::new
TartEncoderNew(scheduler, max_wnd) ==
    [kind |-> "Tart", tart |-> KernelEncoderNew, scheduler |-> scheduler,
     max_wnd |-> max_wnd]

\* TartEncoder::next_id
TartNextId(enc) == KernelNextMetadata(enc.tart)

\* TartEncoder::reset
TartReset(enc) ==
    LET id_to_remove == SaturatingSub(TartNextId(enc), enc.max_wnd)
    IN IF id_to_remove > 0
       THEN [enc EXCEPT !.tart = KernelRemoveUpTo(@, id_to_remove)]
       ELSE enc

\* TartEncoder::protect_symbol: the kernel protects the payload before the
\* metadata is attached to the packet.
TartProtectSymbol(enc, pkt) ==
    LET next_metadata == KernelNextMetadata(enc.tart)
        enc1 == [enc EXCEPT !.tart = KernelProtectData(@, pkt.data)]
        added == AddFecMetadata(pkt, FecSourceTart(next_metadata))
    IN IF added.err # "Ok"
       THEN [enc |-> enc1, pkt |-> pkt, err |-> added.err]
       ELSE [enc |-> IF KernelNProtectedSymbols(enc1.tart) >= enc1.max_wnd
                     THEN TartReset(enc1) ELSE enc1,
             pkt |-> added.pkt,
             err |-> "Ok"]

\* TartEncoder::should_send_rs
TartShouldSendRs(enc) == SchedulerShouldGenerateRs(enc.scheduler, TartNextId(enc))

\* The packet TartEncoder::generate_rs builds around a repair symbol.
TartRepairPacket(current_id, repair) ==
    [id |-> current_id, fec |-> FecRepairTart(repair), recovered |-> NoneU64,
     data |-> <<>>]

RECURSIVE TartGenerateLoop(_, _, _)
\* The while loop of TartEncoder::generate_rs. An iteration that leaves the
\* encoder as it found it is followed by the same iteration for ever: the
\* call does not return, err is "NoReturn" then and out what it had pushed.
TartGenerateLoop(enc, current_id, out) ==
    IF ~SchedulerShouldGenerateRs(enc.scheduler, current_id)
    THEN [enc |-> enc, out |-> out, err |-> "Ok"]
    ELSE IF KernelNProtectedSymbols(enc.tart) = 0
    THEN [enc |-> enc, out |-> <<>>, err |-> "FecEncoder"]
    ELSE LET sent == [enc EXCEPT
                        !.scheduler = SchedulerOnSentRs(@, TartNextId(enc))]
             pushed == Append(out, TartRepairPacket(
                                       current_id,
                                       KernelGenerateRepair(enc.tart)))
         IN IF sent = enc
            THEN [enc |-> enc, out |-> pushed, err |-> "NoReturn"]
            ELSE TartGenerateLoop(sent, current_id, pushed)

\* TartEncoder::generate_rs
TartGenerateRs(enc) == TartGenerateLoop(enc, TartNextId(enc), <<>>)

\* TartDecoder::new
TartDecoderNew(max_wnd) ==
    [kind |-> "Tart", tart |-> KernelDecoderNew, max_window |-> max_wnd]

\* A Tart decoder that gives a recovered packet the id of the packet that
\* triggered the recovery.
TartRecoveredAsTrigger(decoded, pkt) ==
    [i \in DOMAIN decoded |-> PacketNewRecovered(pkt.id, pkt.id)]

\* The packets the Tart decoder builds from the symbols the kernel decoded on
\* the arrival of pkt.
TartRecovered(decoded, pkt) ==
    [i \in DOMAIN decoded |->
        PacketNewRecovered(FromBeBytes(decoded[i][2]), pkt.id)]

\* TartDecoder::recv_ss: the decoder afterwards, the packets returned (a Vec)
\* and the Result.
TartRecvSs(dec, pkt) ==
    IF ~(pkt.fec.tag = "Source" /\ pkt.fec.scheme = "Tart")
    THEN [dec |-> dec, recovered |-> <<>>, err |-> "FecWrongMetadata"]
    ELSE LET r == KernelReceiveSourceSymbol(dec.tart, pkt.fec.ssid, pkt.data)
         IN [dec |-> [dec EXCEPT !.tart = r.k],
             recovered |-> TartRecovered(r.decoded, pkt),
             err |-> "Ok"]

\* TartDecoder::recv_rs
TartRecvRs(dec, pkt) ==
    IF ~(pkt.fec.tag = "Repair" /\ pkt.fec.scheme = "Tart")
    THEN [dec |-> dec, recovered |-> <<>>, err |-> "FecWrongMetadata"]
    ELSE IF KernelUnused(dec.tart, pkt.fec.ssids)
    THEN [dec |-> dec, recovered |-> <<>>, err |-> "UnusedRepair"]
    ELSE LET r == KernelReceiveRepairSymbol(dec.tart, pkt.fec.ssids)
         IN [dec |-> [dec EXCEPT !.tart = r.k],
             recovered |-> TartRecovered(r.decoded, pkt),
             err |-> "Ok"]

(***************************************************************************)
(* FecEncoder and FecDecoder (src/fec/mod.rs): the dispatch on the scheme. *)
(***************************************************************************)
FecEncoderNone == [kind |-> "None"]

FecDecoderNone == [kind |-> "None"]

\* FecEncoder::protect_symbol
FecProtectSymbol(fec, pkt) ==
    IF fec.kind = "Tart" THEN TartProtectSymbol(fec, pkt)
    ELSE IF fec.kind = "Maelstrom" THEN MaelstromProtectSymbol(fec, pkt)
    ELSE [enc |-> fec, pkt |-> pkt, err |-> "Ok"]

\* FecEncoder::should_generate_rs
FecShouldGenerateRs(fec) ==
    IF fec.kind = "Tart" THEN TartShouldSendRs(fec)
    ELSE IF fec.kind = "Maelstrom" THEN MaelstromShouldGenerateRs(fec)
    ELSE FALSE

\* FecEncoder::generate_rs
FecGenerateRs(fec) ==
    IF fec.kind = "Tart" THEN TartGenerateRs(fec)
    ELSE IF fec.kind = "Maelstrom" THEN MaelstromGenerateRs(fec)
    ELSE [enc |-> fec, out |-> <<>>, err |-> "Ok"]

\* FecEncoder::recv_feedback (TartEncoder::recv_feedback for Tart)
FecRecvFeedback(fec, nb_lost, nb_elems) ==
    IF fec.kind = "Tart"
    THEN [fec EXCEPT !.scheduler = SchedulerRecvFeedback(@, nb_lost, nb_elems)]
    ELSE fec

\* FecDecoder::recv_ss: every (decoder, packets returned as a Vec, Result).
\* The Maelstrom decoder collects its HashSet of recovered packets into the
\* Vec, in any order.
FecRecvSs(fec, pkt) ==
    IF fec.kind = "Tart" THEN {TartRecvSs(fec, pkt)}
    ELSE IF fec.kind = "Maelstrom"
    THEN UNION {{[dec |-> o.dec, recovered |-> v, err |-> o.err] :
                    v \in Orders(o.recovered)} :
                o \in MaelstromRecvSs(fec, pkt)}
    ELSE {[dec |-> fec, recovered |-> <<>>, err |-> "Ok"]}

\* FecDecoder::recv_rs
FecRecvRs(fec, pkt) ==
    IF fec.kind = "Tart"
    THEN {[dec |-> o.dec, recovered |-> o.recovered, err |-> o.err,
           action |-> "None"] : o \in {TartRecvRs(fec, pkt)}}
    ELSE IF fec.kind = "Maelstrom"
    THEN UNION {{[dec |-> o.dec, recovered |-> v, err |-> o.err,
                  action |-> o.action] : v \in Orders(o.recovered)} :
                o \in MaelstromRecvRs(fec, pkt)}
    ELSE {[dec |-> fec, recovered |-> <<>>, err |-> "Ok", action |-> "None"]}

(***************************************************************************)
(* The drop schedulers (src/drop).                                         *)
(***************************************************************************)
NoDropScheduler == [kind |-> "None"]

\* ConstantDropScheduler::new
ConstantDropSchedulerNew(step) ==
    [kind |-> "Constant", step |-> step, nb_calls |-> 0]

\* SpecificDropScheduler::new followed by add_to_drop
SpecificDropSchedulerNew(cycle_len, drops) ==
    [kind |-> "Specific", to_drop |-> drops, cycle_len |-> cycle_len, idx |-> 0]

\* UniformDropScheduler::new, with a rate strictly between 0 and 1: the random
\* generator is not modelled, every draw can come out either way.
UniformDropSchedulerNew == [kind |-> "Uniform"]

\* DropScheduler::should_drop: every (answer, scheduler afterwards). A uniform
\* scheduler answers either way until the run has dropped MaxDrops packets.
ShouldDrop(sched, nb_drop) ==
    IF sched.kind = "Constant"
    THEN IF sched.nb_calls + 1 >= sched.step
         THEN {[drop |-> TRUE, sched |-> [sched EXCEPT !.nb_calls = 0]]}
         ELSE {[drop |-> FALSE, sched |-> [sched EXCEPT !.nb_calls = @ + 1]]}
    ELSE IF sched.kind = "Specific"
    THEN {[drop |-> (sched.idx % sched.cycle_len) \in sched.to_drop,
           sched |-> [sched EXCEPT !.idx = @ + 1]]}
    ELSE IF sched.kind = "Uniform"
    THEN {[drop |-> d, sched |-> sched] :
            d \in IF nb_drop < MaxDrops THEN BOOLEAN ELSE {FALSE}}
    ELSE {[drop |-> FALSE, sched |-> sched]}

(***************************************************************************)
(* The nodes (src/node).                                                   *)
(***************************************************************************)
\* Source::new
SourceNew == [id |-> 0]

\* Sink::new
SinkNew == [recv |-> <<>>]

\* Encoder::new
EncoderNew(fec) == [nb_ss |-> 0, nb_rs |-> 0, pkts |-> <<>>, fec |-> fec]

\* Dropper::new, followed by activate_trace when trace is set.
DropperNew(scheduler, trace) ==
    [scheduler |-> scheduler, nb_recv |-> 0, nb_drop |-> 0, nb_drop_ss |-> 0,
     pkts |-> <<>>, trace_on |-> trace, trace |-> <<>>]

\* DecoderFeedback::new
DecoderFeedbackNew(frequency) ==
    [kind |-> "Some", frequency |-> frequency, last_feedback |-> 0,
     bitmap |-> {}]

NoFeedback == [kind |-> "None"]

\* Decoder::new
DecoderNew(fec, feedback) ==
    [nb_ss |-> 0, nb_rs |-> 0, nb_recovered |-> 0, pkts |-> <<>>, fec |-> fec,
     feedback |-> feedback, trace_on |-> FALSE, trace |-> <<>>]

RECURSIVE EncoderForwLoop(_, _, _)
\* The loop of Encoder::forw from the i-th packet of the pool on.
EncoderForwLoop(enc, i, out) ==
    IF i > Len(enc.pkts)
    THEN [enc |-> [enc EXCEPT !.pkts = <<>>], out |-> out, err |-> "Ok"]
    ELSE LET p == FecProtectSymbol(enc.fec, enc.pkts[i])
             g == FecGenerateRs(p.enc)
             repairs == IF g.err = "Ok" THEN g.out ELSE <<>>
         IN IF p.err # "Ok"
            THEN [enc |-> [enc EXCEPT !.pkts = <<>>, !.fec = p.enc],
                  out |-> <<>>, err |-> p.err]
            ELSE IF ~FecShouldGenerateRs(p.enc)
            THEN EncoderForwLoop([enc EXCEPT !.fec = p.enc], i + 1,
                                 Append(out, p.pkt))
            ELSE IF g.err = "NoReturn"
            THEN [enc |-> [enc EXCEPT !.pkts = <<>>, !.fec = g.enc],
                  out |-> <<>>, err |-> g.err]
            ELSE EncoderForwLoop(
                     [enc EXCEPT !.fec = g.enc, !.nb_rs = @ + Len(repairs)],
                     i + 1,
                     Append(out, p.pkt) \o repairs)

\* Encoder::forw
EncoderForw(enc) ==
    EncoderForwLoop([enc EXCEPT !.nb_ss = @ + Len(enc.pkts)], 1, <<>>)

RECURSIVE EncoderRecvFeedbackLoop(_, _, _)
EncoderRecvFeedbackLoop(fec, feedback, i) ==
    IF i > Len(feedback) THEN fec
    ELSE EncoderRecvFeedbackLoop(
             FecRecvFeedback(fec, feedback[i][1], feedback[i][2]), feedback,
             i + 1)

\* Encoder::recv_feedback
EncoderRecvFeedback(enc, feedback) ==
    [enc EXCEPT !.fec = EncoderRecvFeedbackLoop(@, feedback, 1)]

RECURSIVE DropperForwLoop(_, _, _)
\* The loop of Dropper::forw from the i-th packet of the pool on: every
\* (dropper afterwards, packets forwarded).
DropperForwLoop(drp, i, out) ==
    IF i > Len(drp.pkts)
    THEN {[drp |-> [drp EXCEPT !.pkts = <<>>], out |-> out]}
    ELSE LET pkt == drp.pkts[i]
             is_repair == pkt.fec.tag = "Repair"
         IN UNION {
              LET drp1 == [drp EXCEPT
                     !.scheduler = d.sched,
                     !.nb_drop = IF d.drop THEN @ + 1 ELSE @,
                     !.nb_drop_ss = IF d.drop /\ pkt.fec.tag = "Source"
                                    THEN @ + 1 ELSE @,
                     !.trace = IF drp.trace_on
                               THEN Append(@, <<pkt.id, is_repair, d.drop>>)
                               ELSE @]
              IN DropperForwLoop(drp1, i + 1,
                                 IF d.drop THEN out ELSE Append(out, pkt)) :
              d \in ShouldDrop(drp.scheduler, drp.nb_drop)}

\* A Dropper::forw that forwards what it keeps last first.
DropperForwReversed(drp) ==
    {[o EXCEPT !.out = [i \in DOMAIN o.out |-> o.out[Len(o.out) + 1 - i]]] :
        o \in DropperForwLoop(drp, 1, <<>>)}

\* Dropper::forw
DropperForw(drp) == DropperForwLoop(drp, 1, <<>>)

\* Dropper::get_dropped_ss, as a set
DroppedSs(drp) ==
    {drp.trace[i][1] : i \in {j \in DOMAIN drp.trace :
                                ~drp.trace[j][2] /\ drp.trace[j][3]}}

\* The size of the feedback bitmap: Bitmap<1024>.
BitmapSize == 1024

\* DecoderFeedback::recv_ss. The bitmap is the set of the indices that are set.
\* Bitmap<1024>::set indexes its array of words with index / 128, so that an
\* index of 1024 or more ends the call in a panic: err is "Panic" then, the
\* Result that never comes.
FeedbackRecvSs(fb, id) ==
    IF id - fb.last_feedback > BitmapSize
    THEN [fb |-> fb, err |-> "FeedbackIdTooBig"]
    ELSE IF id - fb.last_feedback >= BitmapSize
    THEN [fb |-> fb, err |-> "Panic"]
    ELSE [fb |-> [fb EXCEPT !.bitmap = @ \cup {id - fb.last_feedback}],
          err |-> "Ok"]

\* A should_send_feedback that waits for one symbol more.
FeedbackShouldSendStrict(fb, id) == id - fb.last_feedback > fb.frequency

\* DecoderFeedback::should_send_feedback
FeedbackShouldSend(fb, id) == id - fb.last_feedback >= fb.frequency

\* DecoderFeedback::nb_since_last
FeedbackNbSinceLast(fb, id) == id - fb.last_feedback

\* DecoderFeedback::nb_recv
FeedbackNbRecv(fb) == Cardinality(fb.bitmap)

\* DecoderFeedback::reset
FeedbackReset(fb, id) == [fb EXCEPT !.last_feedback = id, !.bitmap = {}]

\* The packets of a Vec, as ids (what Decoder::forw appends to its trace).
Ids(pkts) == [i \in DOMAIN pkts |-> pkts[i].id]

\* What Decoder::forw does with the packets a codec call recovered.
DecoderRecovered(dec, recovered) ==
    [dec EXCEPT !.nb_recovered = @ + Len(recovered),
                !.trace = IF dec.trace_on THEN @ \o Ids(recovered) ELSE @]

RECURSIVE DecoderForwLoop(_, _, _, _, _)
\* The loop of Decoder::forw from the i-th packet of the pool on: every
\* (decoder afterwards, packets forwarded, feedback, Result, classes), where
\* classes collects how the codec answered each repair.
DecoderForwLoop(dec, i, out, feedback_pkts, classes) ==
    IF i > Len(dec.pkts)
    THEN {[dec |-> [dec EXCEPT !.pkts = <<>>], out |-> out,
           feedback |-> feedback_pkts, err |-> "Ok", classes |-> classes]}
    ELSE LET pkt == dec.pkts[i]
         IN IF pkt.fec.tag = "Source"
            THEN UNION {
              LET dec1 == IF r.err = "Ok"
                          THEN DecoderRecovered(
                                   [dec EXCEPT !.fec = r.dec, !.nb_ss = @ + 1],
                                   r.recovered)
                          ELSE [dec EXCEPT !.fec = r.dec, !.nb_ss = @ + 1]
                  out1 == IF r.err = "Ok" THEN out \o r.recovered ELSE out
                  id == FromBeBytes(pkt.data)
                  fb == IF dec.feedback.kind = "Some"
                        THEN FeedbackRecvSs(dec.feedback, id)
                        ELSE [fb |-> dec.feedback, err |-> "Ok"]
                  send == dec.feedback.kind = "Some" /\ fb.err = "Ok"
                          /\ FeedbackShouldSend(fb.fb, id)
                  total == FeedbackNbSinceLast(fb.fb, id)
                  nb_lost == SaturatingSub(total, FeedbackNbRecv(fb.fb))
                  dec2 == [dec1 EXCEPT !.feedback =
                             IF send THEN FeedbackReset(fb.fb, id) ELSE fb.fb]
              IN IF dec.feedback.kind = "Some" /\ Len(pkt.data) # 8
                 THEN {[dec |-> [dec1 EXCEPT !.pkts = <<>>], out |-> <<>>,
                        feedback |-> <<>>, err |-> "FecWrongMetadata",
                        classes |-> classes]}
                 ELSE IF fb.err # "Ok"
                 THEN {[dec |-> [dec1 EXCEPT !.pkts = <<>>], out |-> <<>>,
                        feedback |-> <<>>, err |-> fb.err,
                        classes |-> classes]}
                 ELSE DecoderForwLoop(
                          dec2, i + 1,
                          Append(out1, [pkt EXCEPT !.fec = FecNone]),
                          IF send THEN Append(feedback_pkts, <<nb_lost, total>>)
                          ELSE feedback_pkts,
                          classes \cup (IF r.err = "Ok" THEN {} ELSE {r.err})) :
              r \in FecRecvSs(dec.fec, pkt)}
            ELSE IF pkt.fec.tag = "Repair"
            THEN UNION {
              LET dec1 == IF r.err = "Ok"
                          THEN DecoderRecovered(
                                   [dec EXCEPT !.fec = r.dec, !.nb_rs = @ + 1],
                                   r.recovered)
                          ELSE [dec EXCEPT !.fec = r.dec, !.nb_rs = @ + 1]
              IN DecoderForwLoop(
                     dec1, i + 1,
                     IF r.err = "Ok" THEN out \o r.recovered ELSE out,
                     feedback_pkts,
                     classes \cup {IF r.err = "Ok" THEN r.action ELSE r.err}) :
              r \in FecRecvRs(dec.fec, pkt)}
            ELSE DecoderForwLoop(dec, i + 1, Append(out, pkt), feedback_pkts,
                                 classes)

\* A Decoder::forw that leaves its loop after the first repair of the pool.
DecoderForwUpToRepair(dec) ==
    LET first == {i \in DOMAIN dec.pkts : dec.pkts[i].fec.tag = "Repair"}
        last == IF first = {} THEN Len(dec.pkts) ELSE Min(first)
    IN DecoderForwLoop([dec EXCEPT !.pkts = SubSeq(@, 1, last)],
                       1, <<>>, <<>>, {})

\* Decoder::forw
DecoderForw(dec) == DecoderForwLoop(dec, 1, <<>>, <<>>, {})

\* Sink::recv_multiple
SinkRecvMultiple(sink, pkts) == [sink EXCEPT !.recv = @ \o pkts]

\* Sink::get_recovered
SinkGetRecovered(sink) ==
    LET RECURSIVE Collect(_)
        Collect(i) ==
            IF i > Len(sink.recv) THEN <<>>
            ELSE (IF sink.recv[i].recovered # NoneU64
                  THEN <<sink.recv[i].id>> ELSE <<>>) \o Collect(i + 1)
    IN Collect(1)

\* Sink::get_lost
SinkGetLost(sink, max_id) ==
    LET recv == {sink.recv[i].id : i \in DOMAIN sink.recv}
    IN {i \in 0..(max_id - 1) : i \notin recv}

\* Sink::get_duplicates
SinkGetDuplicates(sink) ==
    LET RECURSIVE Collect(_)
        Collect(i) ==
            IF i > Len(sink.recv) THEN <<>>
            ELSE (IF \E j \in 1..(i - 1) : sink.recv[j].id = sink.recv[i].id
                  THEN <<sink.recv[i].id>> ELSE <<>>) \o Collect(i + 1)
    IN Collect(1)

(***************************************************************************)
(* The simulator (src/lib.rs) and the runs that are explored.              *)
(***************************************************************************)
VARIABLES
    source,      \* Simulator.source
    encoder,     \* Simulator.encoder
    dropper,     \* Simulator.dropper
    decoder,     \* Simulator.decoder
    sink,        \* Simulator.sink
    nb_packets,  \* the argument of Simulator::run
    iter,        \* the iterations of the loop of run that are complete
    pc,          \* the place of run in its loop body, or "done"
    packets,     \* the local packets of run: the Vec handed to the next node
    feedback,    \* the local feedback of run
    result,      \* what run returned, once pc is "done"
    classes,     \* how the codec answered the repairs of the last Decoder::forw,
                 \* and the errors it gave for its source symbols
    rs_delivered,\* history: the ssid lists of the repairs the dropper forwarded
    probe,       \* the packet of the runs that call add_fec_metadata directly
    twin         \* the Encoder of the second run, where two runs are compared

vars == <<source, encoder, dropper, decoder, sink, nb_packets, iter, pc,
          packets, feedback, result, classes, rs_delivered, probe, twin>>

\* No second run.
NoTwin == [kind |-> "None"]

\* The interleaves of the explored Maelstrom encoders.
Interleavings == {<<1>>, <<2>>, <<1, 2>>, <<2, 1>>, <<3>>}

\* The capacities of the explored Maelstrom decoders: the small ones, and the
\* one the tests use, twenty times the window.
Capacities(window) == (0..MaxCapacity) \cup {window * 20}

\* Maelstrom under a uniform dropper.
MaelstromRuns ==
    {[encoder |-> EncoderNew(MaelstromEncoderNew(w, l)),
      dropper |-> DropperNew(UniformDropSchedulerNew, TRUE),
      decoder |-> DecoderNew(MaelstromDecoderNew(c), NoFeedback),
      nb_packets |-> MaxPackets] :
     <<w, l, c>> \in {x \in (1..MaxWindow) \X Interleavings \X (0..60) :
                        x[3] \in Capacities(x[1])}}

\* tests::test_maelstrom_burst_two
BurstTwoWindow == 5

BurstTwoCycle == 100

BurstTwoPackets == 10

BurstTwoRun ==
    [encoder |-> EncoderNew(MaelstromEncoderNew(BurstTwoWindow, <<1, 2>>)),
     dropper |-> DropperNew(
                     SpecificDropSchedulerNew(BurstTwoCycle, {3, 4, 5, 6}), TRUE),
     decoder |-> DecoderNew(MaelstromDecoderNew(BurstTwoWindow * 20), NoFeedback),
     nb_packets |-> BurstTwoPackets]

\* tests::test_maelstrom, scaled down: a constant dropper.
ConstantRuns ==
    {[encoder |-> EncoderNew(MaelstromEncoderNew(2, <<1, 2>>)),
      dropper |-> DropperNew(ConstantDropSchedulerNew(step), FALSE),
      decoder |-> DecoderNew(MaelstromDecoderNew(2 * 20), NoFeedback),
      nb_packets |-> MaxPackets] : step \in 2..3}

\* tests::test_sim_no_nodes: Simulator::new
NoNodesRun ==
    [encoder |-> EncoderNew(FecEncoderNone),
     dropper |-> DropperNew(NoDropScheduler, FALSE),
     decoder |-> DecoderNew(FecDecoderNone, NoFeedback),
     nb_packets |-> MaxPackets]

\* tests::test_simple_tart_recovery, scaled down.
TartRuns ==
    {[encoder |-> EncoderNew(TartEncoderNew(
                      WindowStepSchedulerNew(w, step), w)),
      dropper |-> DropperNew(UniformDropSchedulerNew, TRUE),
      decoder |-> DecoderNew(TartDecoderNew(w), DecoderFeedbackNew(f)),
      nb_packets |-> MaxPackets] :
     <<w, step, f>> \in (2..MaxWindow) \X (1..2) \X {2}}

\* An encoder and a decoder of different schemes: set_encoder and set_decoder
\* take any, nothing ties one to the other.
MismatchRuns ==
    {[encoder |-> EncoderNew(MaelstromEncoderNew(w, <<1>>)),
      dropper |-> DropperNew(UniformDropSchedulerNew, TRUE),
      decoder |-> DecoderNew(TartDecoderNew(w), NoFeedback),
      nb_packets |-> MaxPackets] : w \in 1..MaxWindow}
    \cup
    {[encoder |-> EncoderNew(TartEncoderNew(WindowStepSchedulerNew(w, 1), w)),
      dropper |-> DropperNew(UniformDropSchedulerNew, TRUE),
      decoder |-> DecoderNew(MaelstromDecoderNew(c), NoFeedback),
      nb_packets |-> MaxPackets] : <<w, c>> \in (2..MaxWindow) \X {MaxCapacity}}

Runs == MaelstromRuns \cup {BurstTwoRun} \cup ConstantRuns \cup {NoNodesRun}
        \cup TartRuns

NoProbe == [pkt |-> PacketNew(0), metadata |-> FecNone, err |-> "None",
            before |-> PacketNew(0)]

Init ==
    \E run \in Runs :
        /\ source = SourceNew
        /\ encoder = run.encoder
        /\ dropper = run.dropper
        /\ decoder = run.decoder
        /\ sink = SinkNew
        /\ nb_packets = run.nb_packets
        /\ iter = 0
        /\ pc = "source"
        /\ packets = <<>>
        /\ feedback = <<>>
        /\ result = "Running"
        /\ classes = {}
        /\ rs_delivered = {}
        /\ probe = NoProbe
        /\ twin = NoTwin

\* Source::gen: the packet minted.
SourceGen(src) == PacketNew(src.id)

\* Simulator::run, lines 102 and 104: the source mints a packet, the encoder
\* receives it.
Gen ==
    /\ pc = "source"
    /\ iter < nb_packets
    /\ source' = [source EXCEPT !.id = @ + 1]
    /\ encoder' = [encoder EXCEPT !.pkts = @ \o <<SourceGen(source)>>]
    /\ pc' = "encoder"
    /\ UNCHANGED <<dropper, decoder, sink, nb_packets, iter, packets, feedback,
                   result, classes, rs_delivered, probe,
                   twin>>

\* Simulator::run, lines 105 and 107: the encoder forwards, the dropper
\* receives.
EncoderStep ==
    /\ pc = "encoder"
    /\ LET o == EncoderForw(encoder)
       IN /\ encoder' = o.enc
          /\ IF o.err = "Ok"
             THEN /\ packets' = o.out
                  /\ dropper' = [dropper EXCEPT
                                   !.nb_recv = @ + Len(o.out),
                                   !.pkts = @ \o o.out]
                  /\ pc' = "dropper"
                  /\ result' = result
             ELSE /\ packets' = <<>>
                  /\ dropper' = dropper
                  /\ pc' = "done"
                  /\ result' = o.err
    /\ UNCHANGED <<source, decoder, sink, nb_packets, iter, feedback, classes,
                   rs_delivered, probe,
                   twin>>

\* Simulator::run, lines 108 and 110: the dropper forwards, the decoder
\* receives.
DropperStep ==
    /\ pc = "dropper"
    /\ \E o \in DropperForw(dropper) :
          /\ dropper' = o.drp
          /\ packets' = o.out
          /\ decoder' = [decoder EXCEPT !.pkts = @ \o o.out]
          /\ rs_delivered' = rs_delivered \cup
                {o.out[i].fec.ssids :
                   i \in {j \in DOMAIN o.out : o.out[j].fec.tag = "Repair"}}
    /\ pc' = "decoder"
    /\ UNCHANGED <<source, encoder, sink, nb_packets, iter, feedback, result,
                   classes, probe,
                   twin>>

\* Simulator::run, line 111: the decoder forwards.
DecoderStep ==
    /\ pc = "decoder"
    /\ \E o \in DecoderForw(decoder) :
          /\ decoder' = o.dec
          /\ packets' = o.out
          /\ feedback' = o.feedback
          /\ classes' = o.classes
          /\ pc' = IF o.err = "Ok" THEN "sink" ELSE "done"
          /\ result' = IF o.err = "Ok" THEN result ELSE o.err
    /\ UNCHANGED <<source, encoder, dropper, sink, nb_packets, iter,
                   rs_delivered, probe,
                   twin>>

\* Simulator::run, lines 114 to 119: the encoder takes the feedback, the sink
\* the packets; the iteration is complete.
SinkStep ==
    /\ pc = "sink"
    /\ encoder' = IF feedback # <<>>
                  THEN EncoderRecvFeedback(encoder, feedback) ELSE encoder
    /\ sink' = SinkRecvMultiple(sink, packets)
    /\ iter' = iter + 1
    /\ pc' = "source"
    /\ UNCHANGED <<source, dropper, decoder, nb_packets, packets, feedback,
                   result, classes, rs_delivered, probe,
                   twin>>

\* Simulator::run, line 122: the loop is over.
Return ==
    /\ pc = "source"
    /\ iter = nb_packets
    /\ pc' = "done"
    /\ result' = "Ok"
    /\ UNCHANGED <<source, encoder, dropper, decoder, sink, nb_packets, iter,
                   packets, feedback, classes, rs_delivered, probe,
                   twin>>

Next == Gen \/ EncoderStep \/ DropperStep \/ DecoderStep \/ SinkStep \/ Return

Spec == Init /\ [][Next]_vars

\* tests::test_adaptive_tart_with_specific
AdaptiveWindow == 100

AdaptiveFeedbackFrequency == 500

AdaptivePackets == 100

\* AdaptiveFecScheduler::new(0.5, fec_max_wnd), set_initial_loss_estimation(0.2)
AdaptiveTestScheduler ==
    SetInitialLossEstimation(AdaptiveFecSchedulerNew(<<1, 2>>, AdaptiveWindow),
                             <<1, 5>>)

\* tests::test_adaptive_tart_with_specific. The draws of its seeded uniform
\* dropper are not modelled: the run is explored without drops and with a drop
\* every third and every tenth packet.
AdaptiveRuns ==
    {[encoder |-> EncoderNew(TartEncoderNew(AdaptiveTestScheduler, AdaptiveWindow)),
      dropper |-> DropperNew(d, TRUE),
      decoder |-> DecoderNew(TartDecoderNew(AdaptiveWindow),
                             DecoderFeedbackNew(AdaptiveFeedbackFrequency)),
      nb_packets |-> AdaptivePackets] :
     d \in {NoDropScheduler, ConstantDropSchedulerNew(3),
            ConstantDropSchedulerNew(10)}}

InitAdaptive ==
    \E run \in AdaptiveRuns :
        /\ source = SourceNew
        /\ encoder = run.encoder
        /\ dropper = run.dropper
        /\ decoder = run.decoder
        /\ sink = SinkNew
        /\ nb_packets = run.nb_packets
        /\ iter = 0
        /\ pc = "source"
        /\ packets = <<>>
        /\ feedback = <<>>
        /\ result = "Running"
        /\ classes = {}
        /\ rs_delivered = {}
        /\ probe = NoProbe
        /\ twin = NoTwin

SpecAdaptive == InitAdaptive /\ [][Next]_vars

\* Tart under the adaptive scheduler, scaled down, under a uniform dropper: the
\* estimate starts at 0 (new) or at 1/2, the decoder sends its feedback at every
\* symbol (frequency 0) or every second one.
AdaptiveSmallRuns ==
    {[encoder |-> EncoderNew(TartEncoderNew(
                      SetInitialLossEstimation(
                          AdaptiveFecSchedulerNew(<<1, 2>>, MaxWindow), l),
                      MaxWindow)),
      dropper |-> DropperNew(UniformDropSchedulerNew, TRUE),
      decoder |-> DecoderNew(TartDecoderNew(MaxWindow), DecoderFeedbackNew(f)),
      nb_packets |-> MaxPackets] :
     <<l, f>> \in {<<0, 1>>, <<1, 2>>} \X {0, 2}}

InitAdaptiveSmall ==
    \E run \in AdaptiveSmallRuns :
        /\ source = SourceNew
        /\ encoder = run.encoder
        /\ dropper = run.dropper
        /\ decoder = run.decoder
        /\ sink = SinkNew
        /\ nb_packets = run.nb_packets
        /\ iter = 0
        /\ pc = "source"
        /\ packets = <<>>
        /\ feedback = <<>>
        /\ result = "Running"
        /\ classes = {}
        /\ rs_delivered = {}
        /\ probe = NoProbe
        /\ twin = NoTwin

SpecAdaptiveSmall == InitAdaptiveSmall /\ [][Next]_vars

\* The runs whose encoder and decoder are of different schemes.
InitMismatch ==
    \E run \in MismatchRuns :
        /\ source = SourceNew
        /\ encoder = run.encoder
        /\ dropper = run.dropper
        /\ decoder = run.decoder
        /\ sink = SinkNew
        /\ nb_packets = run.nb_packets
        /\ iter = 0
        /\ pc = "source"
        /\ packets = <<>>
        /\ feedback = <<>>
        /\ result = "Running"
        /\ classes = {}
        /\ rs_delivered = {}
        /\ probe = NoProbe
        /\ twin = NoTwin

SpecMismatch == InitMismatch /\ [][Next]_vars

(***************************************************************************)
(* What the claims speak about.                                            *)
(***************************************************************************)
\* The run uses the Maelstrom codec on both sides.
IsMaelstrom == encoder.fec.kind = "Maelstrom" /\ decoder.fec.kind = "Maelstrom"

\* The packets of a Vec that are flagged recovered.
RecoveredOf(pkts) == {pkts[i] : i \in {j \in DOMAIN pkts : pkts[j].recovered # NoneU64}}

\* The packets of a Vec that are Maelstrom repairs.
RepairsOf(pkts) ==
    {pkts[i] : i \in {j \in DOMAIN pkts :
                        /\ pkts[j].fec.tag = "Repair"
                        /\ pkts[j].fec.scheme = "Maelstrom"}}

\* The source packets that were protected under the ssids of a set: the source
\* minted packet s as Packet::new(s) and the encoder gave it ssid s.
Originals(ssids) == {PacketNew(s) : s \in ssids}

\* C1: every repair the Maelstrom encoder emits folds to zero with the original
\* payloads of the source symbols of its ssid list.
C1_RepairXorsToZero ==
    pc = "dropper" =>
        \A r \in RepairsOf(packets) :
            XorData(Originals(r.fec.ssids), FromBeBytes(r.data)) = 0

\* C2: every packet the Maelstrom decoder recovers carries the payload of the
\* source symbol of its id, the big-endian encoding of the id.
C2_RecoveredPayloadIsOriginal ==
    (IsMaelstrom /\ pc = "sink") =>
        \A p \in RecoveredOf(packets) : p.data = ToBeBytes(p.id)

\* The ids of the source symbols the dropper dropped.
Dropped == DroppedSs(dropper)

\* The ids of the packets the sink holds flagged recovered.
RecoveredIds == {p.id : p \in RecoveredOf(sink.recv)}

\* The ids of the packets that reached the sink as they were sent.
DeliveredIds == {sink.recv[i].id : i \in {j \in DOMAIN sink.recv :
                                            sink.recv[j].recovered = NoneU64}}

IsInterval(D) == D = Min(D)..Max(D)

\* The window and the capacity of a Maelstrom run, and the interleave of its
\* layer i.
Window == encoder.fec.max_wnd

Capacity == decoder.fec.capacity

Interleave(i) == Len(encoder.fec.interleaves[i])

\* r is what a bin of a layer of interleave l holds when it fires: window
\* ssids of one residue class, l apart, from a multiple of window on.
IsBinContent(r, l) ==
    LET m == Min(r)
    IN /\ r = {m + l * t : t \in 0..(Window - 1)}
       /\ ((m - (m % l)) \div l) % Window = 0

\* The source symbols dropped so far are one burst of at most Interleave(i)
\* consecutive symbols, and the repair of every bin of layer i that holds one
\* of them was forwarded to the decoder.
BurstRepairsDelivered(i) ==
    /\ Dropped # {}
    /\ IsInterval(Dropped)
    /\ Cardinality(Dropped) <= Interleave(i)
    /\ \A d \in Dropped :
          \E r \in rs_delivered : d \in r /\ IsBinContent(r, Interleave(i))

IsBurstTwo ==
    /\ IsMaelstrom
    /\ Window = BurstTwoWindow
    /\ [i \in DOMAIN encoder.fec.interleaves |-> Interleave(i)] = <<1, 2>>
    /\ Capacity = BurstTwoWindow * 20
    /\ dropper.scheduler.kind = "Specific"
    /\ dropper.scheduler.to_drop = {3, 4, 5, 6}
    /\ dropper.scheduler.cycle_len = BurstTwoCycle
    /\ nb_packets = BurstTwoPackets

RECURSIVE VecSort(_)
\* Vec::sort
VecSort(v) ==
    IF v = <<>> THEN <<>>
    ELSE LET i == CHOOSE j \in DOMAIN v : \A k \in DOMAIN v : v[j] <= v[k]
         IN <<v[i]>> \o VecSort(SubSeq(v, 1, i - 1) \o SubSeq(v, i + 1, Len(v)))

\* C4: the run of test_maelstrom_burst_two ends with the recovered ids 3, 4, 5,
\* as many as source symbols were dropped, whatever the iteration orders.
C4_BurstTwoRecovered ==
    (IsBurstTwo /\ pc = "done") =>
        /\ result = "Ok"
        /\ VecSort(SinkGetRecovered(sink)) = <<3, 4, 5>>
        /\ Len(SinkGetRecovered(sink)) = dropper.nb_drop_ss

C4_Witness ==
    IsBurstTwo /\ pc = "done" /\ Dropped = {3, 4, 5} /\ dropper.nb_drop = 4

\* C5: in a Maelstrom run the sink never holds two recovered packets of one id,
\* and never more recovered packets than source symbols were dropped.
C5_RecoveredAtMostOnce ==
    IsMaelstrom =>
        /\ Len(SinkGetRecovered(sink)) = Cardinality(RecoveredIds)
        /\ Len(SinkGetRecovered(sink)) <= dropper.nb_drop_ss

\* The smallest interleave of a Maelstrom run.
MinInterleave == Min({Interleave(i) : i \in DOMAIN encoder.fec.interleaves})

\* What C6 claims of a run without a drop, but for how the repairs are
\* classified.
NoDropNothingRecovered ==
    /\ DOMAIN decoder.fec.equations = {}
    /\ RecoveredOf(sink.recv) = {}
    /\ pc = "source" => SinkGetLost(sink, iter) = {}
    /\ (pc = "source" /\ iter >= Window * MinInterleave) => encoder.nb_rs >= 1

\* C6 as claimed: while nothing is dropped every repair the decoder receives is
\* classified Redundant, the equation map is empty, nothing is recovered or
\* lost, and a repair was emitted once W * min(L_i) packets were sent.
C6_NoDropAllRedundant ==
    (IsMaelstrom /\ dropper.nb_drop = 0) =>
        classes \subseteq {"Redundant"} /\ NoDropNothingRecovered

\* The largest interleave of a Maelstrom run.
MaxInterleave == Max({Interleave(i) : i \in DOMAIN encoder.fec.interleaves})

\* C6 amended: while nothing is dropped every repair is classified Redundant
\* when the capacity is at least (W - 1) * max(L_i), and classified Redundant or
\* refused as too old when it is smaller; the rest is as claimed.
C6_NoDropRedundantOrTooOld ==
    (IsMaelstrom /\ dropper.nb_drop = 0) =>
        /\ classes \subseteq
              (IF Capacity >= (Window - 1) * MaxInterleave
               THEN {"Redundant"} ELSE {"Redundant", "TooOldEquation"})
        /\ NoDropNothingRecovered

C6_Witness ==
    /\ IsMaelstrom /\ dropper.nb_drop = 0 /\ pc = "done"
    /\ decoder.nb_rs >= 2
    /\ classes = {"Redundant"}

\* C7: every packet the sink holds has an id the source minted and is not a
\* repair; after a run of N packets the ids are below N.
C7_SinkIdsMinted ==
    \A i \in DOMAIN sink.recv :
        /\ sink.recv[i].id < source.id
        /\ sink.recv[i].fec.tag # "Repair"
        /\ pc = "done" /\ result = "Ok" => sink.recv[i].id < nb_packets

C7_Witness ==
    /\ pc = "done" /\ result = "Ok"
    /\ RecoveredOf(sink.recv) # {}
    /\ encoder.nb_rs > 0
    /\ decoder.fec.kind = "Tart"

\* C8: no packet the sink holds flagged recovered has the id of a packet that
\* reached the sink as it was sent.
C8_RecoveredNotDelivered == RecoveredIds \cap DeliveredIds = {}

C8_Witness ==
    /\ IsMaelstrom /\ pc = "done"
    /\ Cardinality(RecoveredIds) >= 2
    /\ DeliveredIds # {}

\* The largest id among the source symbols the decoder has forwarded or
\* recovered up to the end of its last forw.
MaxIdSeen ==
    Max({0} \cup {sink.recv[i].id : i \in DOMAIN sink.recv}
            \cup {packets[i].id : i \in DOMAIN packets})

\* C9: for every recovered packet, id + recovered_from is at most the largest
\* source symbol id the decoder has seen.
C9_RecoveredFromWithinSeen ==
    pc = "sink" =>
        \A p \in RecoveredOf(packets) : p.id + p.recovered <= MaxIdSeen

(***************************************************************************)
(* Packet::add_fec_metadata on its own: the operation applied, again and    *)
(* again, to a packet with or without metadata.                             *)
(***************************************************************************)
ProbeMetadata ==
    {FecSourceMaelstrom(i) : i \in 0..MaxProbeId}
        \cup {FecSourceTart(i) : i \in 0..MaxProbeId}
        \cup {FecRepairMaelstrom(S) : S \in (SUBSET (0..MaxProbeId)) \ {{}}}

ProbePackets ==
    {PacketNew(i) : i \in 0..MaxProbeId}
        \cup {AddFecMetadata(PacketNew(i), md).pkt :
                i \in 0..MaxProbeId, md \in ProbeMetadata}

InitMeta ==
    /\ source = SourceNew
    /\ encoder = NoNodesRun.encoder
    /\ dropper = NoNodesRun.dropper
    /\ decoder = NoNodesRun.decoder
    /\ sink = SinkNew
    /\ nb_packets = 0
    /\ iter = 0
    /\ pc = "done"
    /\ packets = <<>>
    /\ feedback = <<>>
    /\ result = "Ok"
    /\ classes = {}
    /\ rs_delivered = {}
    /\ \E p \in ProbePackets : probe = [NoProbe EXCEPT !.pkt = p, !.before = p]
    /\ twin = NoTwin

\* pkt.add_fec_metadata(metadata): probe keeps the packet before and after, the
\* metadata given and the Result.
AddMetadata ==
    /\ \E md \in ProbeMetadata :
          LET r == AddFecMetadata(probe.pkt, md)
          IN probe' = [pkt |-> r.pkt, metadata |-> md, err |-> r.err,
                       before |-> probe.pkt]
    /\ UNCHANGED <<source, encoder, dropper, decoder, sink, nb_packets, iter,
                   pc, packets, feedback, result, classes, rs_delivered,
                   twin>>

NextMeta == AddMetadata

SpecMeta == InitMeta /\ [][NextMeta]_vars

\* C10: add_fec_metadata on a packet that carries metadata returns
\* FecDoubleMetadata and leaves the packet as it was; on a packet without
\* metadata it returns Ok and stores the metadata given.
C10_MetadataSetOnce ==
    probe.err # "None" =>
        IF probe.before.fec.tag # "None"
        THEN probe.err = "FecDoubleMetadata" /\ probe.pkt = probe.before
        ELSE /\ probe.err = "Ok"
             /\ probe.pkt = [probe.before EXCEPT !.fec = probe.metadata]

C10_Witness ==
    /\ probe.err = "FecDoubleMetadata"
    /\ probe.before.fec.tag # "None"
    /\ probe.metadata # probe.before.fec

\* The Maelstrom encoder between protect_symbol and generate_rs of the one
\* packet a tick hands to Encoder::forw.
EncoderAtFiring == MaelstromProtectSymbol(encoder.fec, encoder.pkts[1]).enc

\* The bins (layer, index) whose repair counter the step raises.
FiredBins ==
    {x \in UNION {{<<i, b>> : b \in DOMAIN encoder.fec.interleaves[i]} :
                    i \in DOMAIN encoder.fec.interleaves} :
        encoder'.fec.interleaves[x[1]][x[2]].nb_rs
            = encoder.fec.interleaves[x[1]][x[2]].nb_rs + 1}

\* The step is Encoder::forw of a Maelstrom encoder.
MaelstromForwStep ==
    /\ pc = "encoder" /\ pc' = "dropper"
    /\ encoder.fec.kind = "Maelstrom"

\* C11: every repair a Maelstrom bin emits lists exactly the ssids the bin held
\* when it fired, W of them, all congruent modulo the interleave of the layer,
\* and the bin is empty afterwards; no other repair is emitted.
C11_RepairListsBin ==
    [][MaelstromForwStep =>
          /\ \A x \in FiredBins :
                LET held == EncoderAtFiring.interleaves[x[1]][x[2]].symbols
                    l == Len(encoder.fec.interleaves[x[1]])
                IN /\ \E r \in RepairsOf(packets') : r.fec.ssids = held
                   /\ Cardinality(held) = encoder.fec.max_wnd
                   /\ \A u, v \in held : u % l = v % l
                   /\ encoder'.fec.interleaves[x[1]][x[2]].symbols = {}
          /\ \A r \in RepairsOf(packets') :
                \E x \in FiredBins :
                    r.fec.ssids = EncoderAtFiring.interleaves[x[1]][x[2]].symbols
          /\ Cardinality({j \in DOMAIN packets' : packets'[j].fec.tag = "Repair"})
                = Cardinality(FiredBins)]_vars

C11_Witness ==
    /\ pc = "dropper" /\ IsMaelstrom
    /\ Window >= 2
    /\ \E r \in RepairsOf(packets) :
          /\ Cardinality(r.fec.ssids) = Window
          /\ \E u, v \in r.fec.ssids : v >= u + 2
    /\ \E i \in DOMAIN encoder.fec.interleaves :
          \E b \in DOMAIN encoder.fec.interleaves[i] :
              /\ encoder.fec.interleaves[i][b].nb_rs >= 1
              /\ encoder.fec.interleaves[i][b].symbols = {}

\* C12: every equation of the Maelstrom decoder has recv_ssid within need_ssid
\* and, as long as it is in the map, its recv_ssid never loses a symbol (nor
\* does its need_ssid change).
C12_RecvWithinNeed ==
    [][decoder'.fec.kind = "Maelstrom" =>
          /\ \A k \in DOMAIN decoder'.fec.equations :
                decoder'.fec.equations[k].recv_ssid
                    \subseteq decoder'.fec.equations[k].need_ssid
          /\ \A k \in DOMAIN decoder.fec.equations
                        \cap DOMAIN decoder'.fec.equations :
                /\ decoder.fec.equations[k].recv_ssid
                     \subseteq decoder'.fec.equations[k].recv_ssid
                /\ decoder.fec.equations[k].need_ssid
                     = decoder'.fec.equations[k].need_ssid]_vars

C12_Witness ==
    /\ IsMaelstrom
    /\ \E k \in DOMAIN decoder.fec.equations :
          /\ Cardinality(decoder.fec.equations[k].need_ssid) >= 2
          /\ decoder.fec.equations[k].recv_ssid
               = decoder.fec.equations[k].need_ssid

(***************************************************************************)
(* The Maelstrom decoder on its own: recv_ss and recv_rs called in any      *)
(* order. decoder.fec is the MaelstromDecoder; probe keeps the last call:   *)
(* the packet given, the decoder before it, the Result and what it returned.*)
(***************************************************************************)
NoCall == [call |-> "None", pkt |-> PacketNew(0),
           before |-> MaelstromDecoderNew(0), err |-> "None", recovered |-> {}]

\* The source symbols of the ssids 0..MaxCallSsid, as the Maelstrom encoder
\* sends them.
CallSources ==
    {AddFecMetadata(PacketNew(i), FecSourceMaelstrom(i)).pkt : i \in 0..MaxCallSsid}

\* Repairs over the ssids 0..MaxCallSsid: the fold of the symbols listed, and a
\* repair with an empty list.
CallRepairs ==
    {AddFecMetadata(XorPackets(Originals(S)), FecRepairMaelstrom(S)).pkt :
        S \in SUBSET (0..MaxCallSsid)}

InitDec ==
    /\ source = SourceNew
    /\ encoder = NoNodesRun.encoder
    /\ dropper = NoNodesRun.dropper
    /\ \E c \in 0..MaxCapacity :
          decoder = DecoderNew(MaelstromDecoderNew(c), NoFeedback)
    /\ sink = SinkNew
    /\ nb_packets = 0
    /\ iter = 0
    /\ pc = "done"
    /\ packets = <<>>
    /\ feedback = <<>>
    /\ result = "Ok"
    /\ classes = {}
    /\ rs_delivered = {}
    /\ probe = NoCall
    /\ twin = NoTwin

\* decoder.recv_ss(&pkt), pkt a source symbol or (wrong variant) a repair.
CallRecvSs ==
    /\ \E pkt \in CallSources \cup {p \in CallRepairs : p.fec.ssids = {0}} :
          \E r \in MaelstromRecvSs(decoder.fec, pkt) :
              /\ decoder' = [decoder EXCEPT !.fec = r.dec]
              /\ probe' = [call |-> "recv_ss", pkt |-> pkt,
                           before |-> decoder.fec, err |-> r.err,
                           recovered |-> r.recovered]
    /\ UNCHANGED <<source, encoder, dropper, sink, nb_packets, iter, pc,
                   packets, feedback, result, classes, rs_delivered,
                   twin>>

\* decoder.recv_rs(&pkt), pkt a repair or (wrong variant) a source symbol.
CallRecvRs ==
    /\ \E pkt \in CallRepairs \cup {p \in CallSources : p.fec.ssid = 0} :
          \E r \in MaelstromRecvRs(decoder.fec, pkt) :
              /\ r.dec.eq_id <= MaxRsCalls
              /\ decoder' = [decoder EXCEPT !.fec = r.dec]
              /\ probe' = [call |-> "recv_rs", pkt |-> pkt,
                           before |-> decoder.fec, err |-> r.err,
                           recovered |-> r.recovered]
    /\ UNCHANGED <<source, encoder, dropper, sink, nb_packets, iter, pc,
                   packets, feedback, result, classes, rs_delivered,
                   twin>>

NextDec == CallRecvSs \/ CallRecvRs

SpecDec == InitDec /\ [][NextDec]_vars

\* C13: recv_rs returns TooOldEquation exactly when the repair lists an ssid and
\* the smallest one is below max_ssid - C (0 when max_ssid < C); the decoder is
\* then as it was and nothing is recovered.
C13_TooOldExactly ==
    probe.call = "recv_rs" =>
        LET old == probe.before
            ssids == probe.pkt.fec.ssids
            floor == IF old.max_ssid < old.capacity THEN 0
                     ELSE old.max_ssid - old.capacity
            listed == /\ probe.pkt.fec.tag = "Repair"
                      /\ probe.pkt.fec.scheme = "Maelstrom"
                      /\ ssids # {}
        IN /\ probe.err = "TooOldEquation"
                <=> (listed /\ \A x \in ssids : \E y \in ssids : y <= x /\ y < floor)
           /\ probe.err = "TooOldEquation" =>
                /\ decoder.fec = old
                /\ probe.recovered = {}

C13_Witness ==
    /\ probe.call = "recv_rs"
    /\ probe.err = "TooOldEquation"
    /\ probe.before.capacity >= 1
    /\ DOMAIN probe.before.equations # {}
    /\ DOMAIN probe.before.pkts # {}

\* C14: when the codec of the decoder reports FecWrongMetadata for a source or
\* repair packet of the batch, Decoder::forw returns that error and
\* Simulator::run returns it at once: the tick goes no further.
C14_WrongMetadataPropagated ==
    [][(pc = "decoder" /\ "FecWrongMetadata" \in classes')
          => (pc' = "done" /\ result' = "FecWrongMetadata")]_vars

\* The packets of a Vec that carry the given kind of metadata, in order.
OfTag(pkts, tag) == SelectSeq(pkts, LAMBDA p : p.fec.tag = tag)

\* The packets of a Vec that are not flagged recovered, in order.
NotRecovered(pkts) == SelectSeq(pkts, LAMBDA p : p.recovered = NoneU64)

\* C15: when the codec answers TooOldEquation or UnusedRepair to a repair,
\* Decoder::forw drops that repair and still goes through the whole batch in
\* order: every packet is counted, the source symbols come out in their order
\* without metadata, no repair comes out, forw returns Ok and the run goes on.
C15_OldOrUnusedRepairDropped ==
    [][(pc = "decoder" /\ classes' \cap {"TooOldEquation", "UnusedRepair"} # {})
          => /\ pc' = "sink"
             /\ result' = "Running"
             /\ decoder'.pkts = <<>>
             /\ decoder'.nb_rs = decoder.nb_rs + Len(OfTag(decoder.pkts, "Repair"))
             /\ decoder'.nb_ss = decoder.nb_ss + Len(OfTag(decoder.pkts, "Source"))
             /\ OfTag(packets', "Repair") = <<>>
             /\ NotRecovered(packets')
                   = [i \in DOMAIN OfTag(decoder.pkts, "Source") |->
                        [OfTag(decoder.pkts, "Source")[i] EXCEPT !.fec = FecNone]]]_vars

\* A batch of two repairs or more went through the Maelstrom decoder, one was
\* too old and another one recovered a packet that came out.
C15_Witness ==
    /\ pc = "sink"
    /\ IsMaelstrom
    /\ {"TooOldEquation", "Recover"} \subseteq classes
    /\ RecoveredOf(packets) # {}
    /\ result = "Running"

IsTartWindowStep ==
    encoder.fec.kind = "Tart" /\ encoder.fec.scheduler.kind = "WindowStep"

\* C17: with Tart under WindowStepScheduler(step), one source packet per tick
\* and the kernel numbering from 0, the encoder emits exactly one repair right
\* after the k-th source symbol when k is a positive multiple of step and none
\* otherwise, so that n_ss = N and n_rs = floor(N / step) after N ticks, whatever
\* is dropped and whatever feedback comes back.
C17_RepairEveryStep ==
    [][IsTartWindowStep =>
          /\ pc = "encoder" =>
                LET k == encoder'.nb_ss
                    step == encoder.fec.scheduler.step
                IN /\ k = iter + 1
                   /\ pc' = "dropper"
                   /\ packets'[1].fec.tag = "Source"
                   /\ packets'[1].fec.ssid = k - 1
                   /\ Len(OfTag(packets', "Source")) = 1
                   /\ Len(packets') = IF k % step = 0 THEN 2 ELSE 1
                   /\ k % step = 0 => /\ packets'[2].fec.tag = "Repair"
                                       /\ packets'[2].id = k
                   /\ encoder'.nb_rs = k \div step
          /\ pc' = "done" /\ result' = "Ok" =>
                /\ encoder.nb_ss = nb_packets
                /\ encoder.nb_rs = nb_packets \div encoder.fec.scheduler.step]_vars

\* A step of 2: the fourth source symbol was just followed by the second
\* repair, after packets were dropped and feedback reached the encoder.
C17_Witness ==
    /\ IsTartWindowStep
    /\ pc = "dropper"
    /\ encoder.fec.scheduler.step = 2
    /\ encoder.nb_ss = 4
    /\ encoder.nb_rs = 2
    /\ Len(packets) = 2
    /\ dropper.nb_drop >= 1
    /\ decoder.feedback.last_feedback > 0

\* C18: the adaptive scheduler with alpha 0.5, beta 1, wsize 100 and an initial
\* loss estimate of 0.2, to which no feedback is delivered (the decoder sends one
\* every 500 symbols, the run has 100), asks for one repair after every fifth
\* source symbol and no other: 100 packets give 100 source symbols and 20
\* repairs.
C18_AdaptiveEveryFifth ==
    [][/\ pc = "encoder" =>
             LET k == encoder'.nb_ss
             IN /\ k = iter + 1
                /\ pc' = "dropper"
                /\ packets'[1].fec.tag = "Source"
                /\ Len(OfTag(packets', "Source")) = 1
                /\ Len(packets') = IF k % 5 = 0 THEN 2 ELSE 1
                /\ k % 5 = 0 => packets'[2].fec.tag = "Repair"
                /\ encoder'.nb_rs = k \div 5
       /\ pc = "decoder" => feedback' = <<>>
       /\ pc = "sink" => encoder'.fec.scheduler.loss_estimation = <<1, 5>>
       /\ pc' = "done" =>
             /\ result' = "Ok"
             /\ encoder.nb_ss = 100
             /\ encoder.nb_rs = 20]_vars

C18_Witness ==
    /\ pc = "done"
    /\ result = "Ok"
    /\ encoder.fec.scheduler.kind = "Adaptive"
    /\ encoder.fec.scheduler.wsize = 100
    /\ encoder.fec.scheduler.alpha = <<1, 2>>
    /\ encoder.fec.scheduler.beta = <<1, 1>>
    /\ decoder.feedback.frequency = 500
    /\ encoder.nb_ss = 100
    /\ encoder.nb_rs = 20
    /\ dropper.nb_drop >= 10

\* The adaptive scheduler of the encoder.
Scheduler == encoder.fec.scheduler

\* C19: while the loss estimate of the adaptive scheduler is 0,
\* should_generate_rs is false for every current id and the encoder emits no
\* repair; a feedback whose total is 0 leaves the loss estimate, the deviation
\* estimate and last_sent_ssid as they were.
C19_ZeroEstimateNoRepair ==
    [][/\ Scheduler.loss_estimation = <<0, 1>> =>
             /\ \A current \in 0..AdaptivePackets :
                    ~AdaptiveShouldGenerateRs(Scheduler, current)
             /\ pc = "encoder" =>
                    /\ OfTag(packets', "Repair") = <<>>
                    /\ encoder'.nb_rs = encoder.nb_rs
                    /\ encoder'.nb_ss = encoder.nb_ss + 1
       /\ (pc = "sink" /\ feedback # <<>>
              /\ \A i \in DOMAIN feedback : feedback[i][2] = 0) =>
             /\ Scheduler'.loss_estimation = Scheduler.loss_estimation
             /\ Scheduler'.loss_variance_estimation
                   = Scheduler.loss_variance_estimation
             /\ Scheduler'.last_sent_ssid = Scheduler.last_sent_ssid]_vars

\* The encoder took a feedback whose total is 0 and then, its estimate still at
\* 0, protected a second symbol without a repair.
C19_Witness ==
    /\ pc = "dropper"
    /\ iter = 1
    /\ feedback = <<<<0, 0>>>>
    /\ Scheduler.loss_estimation = <<0, 1>>
    /\ encoder.nb_ss = 2
    /\ encoder.nb_rs = 0
    /\ Len(packets) = 1

(***************************************************************************)
(* Two runs of a Tart encoder under the adaptive scheduler, side by side:   *)
(* the same alpha, beta, wsize and initial estimate, a source symbol        *)
(* protected in both at the same time, a feedback given to both at the same *)
(* time. encoder is the Encoder of run A, twin the one of run B; feedback   *)
(* keeps what run A was told so far.                                        *)
(***************************************************************************)
Alphas == {<<1, 4>>, <<1, 2>>}

Betas == {<<1, 1>>, <<2, 1>>}

InitialEstimates == {<<0, 1>>, <<1, 5>>}

InitTwoRuns ==
    /\ source = SourceNew
    /\ \E alpha \in Alphas, beta \in Betas, loss \in InitialEstimates :
          /\ encoder = EncoderNew(TartEncoderNew(
                            SetBetaFec(SetInitialLossEstimation(
                                AdaptiveFecSchedulerNew(alpha, MaxWindow), loss),
                                beta),
                            MaxWindow))
          /\ twin = encoder
    /\ dropper = NoNodesRun.dropper
    /\ decoder = NoNodesRun.decoder
    /\ sink = SinkNew
    /\ nb_packets = MaxPackets
    /\ iter = 0
    /\ pc = "source"
    /\ packets = <<>>
    /\ feedback = <<>>
    /\ result = "Running"
    /\ classes = {}
    /\ rs_delivered = {}
    /\ probe = NoProbe

\* One iteration of Simulator::run as far as the encoder: the source mints a
\* packet, each Encoder receives it and forwards.
TwoRunsTick ==
    /\ iter < nb_packets
    /\ source' = [source EXCEPT !.id = @ + 1]
    /\ encoder' = EncoderForw([encoder EXCEPT
                                 !.pkts = @ \o <<SourceGen(source)>>]).enc
    /\ twin' = EncoderForw([twin EXCEPT
                              !.pkts = @ \o <<SourceGen(source)>>]).enc
    /\ iter' = iter + 1
    /\ UNCHANGED <<dropper, decoder, sink, nb_packets, pc, packets, feedback,
                   result, classes, rs_delivered, probe>>

\* Encoder::recv_feedback in both runs: the loss ratio told to run B is
\* strictly higher than the one told to run A. recv_feedback reads nothing of
\* a feedback but its ratio nb_lost / nb_elems: the ratios are given in lowest
\* terms.
TwoRunsFeedback ==
    /\ Len(feedback) < MaxFeedbacks
    /\ \E elems_a, elems_b \in 1..MaxTotal :
          \E lost_a \in 0..elems_a, lost_b \in 0..elems_b :
              /\ Gcd(lost_a, elems_a) = 1
              /\ Gcd(lost_b, elems_b) = 1
              /\ lost_a * elems_b < lost_b * elems_a
              /\ encoder' = EncoderRecvFeedback(encoder, <<<<lost_a, elems_a>>>>)
              /\ twin' = EncoderRecvFeedback(twin, <<<<lost_b, elems_b>>>>)
              /\ feedback' = Append(feedback, <<lost_a, elems_a>>)
    /\ UNCHANGED <<source, dropper, decoder, sink, nb_packets, iter, pc,
                   packets, result, classes, rs_delivered, probe>>

NextTwoRuns == TwoRunsTick \/ TwoRunsFeedback

SpecTwoRuns == InitTwoRuns /\ [][NextTwoRuns]_vars

\* C20: of two runs of the adaptive scheduler with the same alpha, beta, wsize,
\* initial estimate, number of packets and feedback instants, the one whose
\* every feedback reports a strictly higher loss ratio emits at least as many
\* repairs as the other.
C20_MoreLossMoreRepairs == twin.nb_rs >= encoder.nb_rs

(***************************************************************************)
(* Two runs of a Tart encoder under the window-step scheduler, side by      *)
(* side: the same max_wnd and step, a source symbol protected in both at    *)
(* the same time, and feedback records given to each run on its own.        *)
(* encoder and packets are the Encoder of run A and all it has emitted,     *)
(* twin and probe.out those of run B; feedback and probe.told keep what     *)
(* each run was told.                                                       *)
(***************************************************************************)
\* The feedback records (nb_lost, nb_elems) a run can be told.
FeedbackRecords ==
    {<<lost, elems>> : <<lost, elems>> \in
        {x \in (0..MaxFeedbacks) \X (0..MaxFeedbacks) : x[1] <= x[2]}}

InitTwoSteps ==
    /\ source = SourceNew
    /\ \E w \in 2..MaxWindow, step \in 1..2 :
          /\ encoder = EncoderNew(TartEncoderNew(
                            WindowStepSchedulerNew(w, step), w))
          /\ twin = encoder
    /\ dropper = NoNodesRun.dropper
    /\ decoder = NoNodesRun.decoder
    /\ sink = SinkNew
    /\ nb_packets = MaxPackets
    /\ iter = 0
    /\ pc = "source"
    /\ packets = <<>>
    /\ feedback = <<>>
    /\ result = "Running"
    /\ classes = {}
    /\ rs_delivered = {}
    /\ probe = [out |-> <<>>, told |-> <<>>]

\* One iteration of Simulator::run as far as the encoder, in both runs: the
\* source mints a packet, each Encoder receives it and forwards.
TwoStepsTick ==
    /\ iter < nb_packets
    /\ source' = [source EXCEPT !.id = @ + 1]
    /\ LET a == EncoderForw([encoder EXCEPT
                               !.pkts = @ \o <<SourceGen(source)>>])
           b == EncoderForw([twin EXCEPT
                               !.pkts = @ \o <<SourceGen(source)>>])
       IN /\ encoder' = a.enc
          /\ twin' = b.enc
          /\ packets' = packets \o a.out
          /\ probe' = [probe EXCEPT !.out = @ \o b.out]
    /\ iter' = iter + 1
    /\ UNCHANGED <<dropper, decoder, sink, nb_packets, pc, feedback, result,
                   classes, rs_delivered>>

\* Encoder::recv_feedback in run A.
TwoStepsFeedbackA ==
    /\ Len(feedback) + Len(probe.told) < MaxFeedbacks
    /\ \E f \in FeedbackRecords :
          /\ encoder' = EncoderRecvFeedback(encoder, <<f>>)
          /\ feedback' = Append(feedback, f)
    /\ UNCHANGED <<source, dropper, decoder, sink, nb_packets, iter, pc,
                   packets, result, classes, rs_delivered, probe, twin>>

\* Encoder::recv_feedback in run B.
TwoStepsFeedbackB ==
    /\ Len(feedback) + Len(probe.told) < MaxFeedbacks
    /\ \E f \in FeedbackRecords :
          /\ twin' = EncoderRecvFeedback(twin, <<f>>)
          /\ probe' = [probe EXCEPT !.told = Append(@, f)]
    /\ UNCHANGED <<source, encoder, dropper, decoder, sink, nb_packets, iter,
                   pc, packets, feedback, result, classes, rs_delivered>>

NextTwoSteps == TwoStepsTick \/ TwoStepsFeedbackA \/ TwoStepsFeedbackB

SpecTwoSteps == InitTwoSteps /\ [][NextTwoSteps]_vars

\* C21: two runs of the Tart encoder under WindowStepScheduler with the same
\* max_wnd and step and the same number of source packets emit their repairs
\* after the same source ids and with the same packet ids, whatever feedback
\* records each of them is given.
C21_SameRepairsWhateverFeedback ==
    /\ Len(packets) = Len(probe.out)
    /\ \A i \in DOMAIN packets :
          /\ packets[i].fec.tag = probe.out[i].fec.tag
          /\ packets[i].id = probe.out[i].id
    /\ encoder.nb_rs = twin.nb_rs

\* Both runs have emitted two repairs or more, and were told different things.
C21_Witness ==
    /\ Len(OfTag(packets, "Repair")) >= 2
    /\ Len(OfTag(probe.out, "Repair")) >= 2
    /\ Len(feedback) = 1
    /\ Len(probe.told) = 1
    /\ feedback # probe.told
    /\ iter = nb_packets

(***************************************************************************)
(* The pipeline fed several packets at once: Node::recv takes a Vec, and    *)
(* the forw of each node goes through all of its pool.                      *)
(***************************************************************************)
BatchRuns ==
    {[encoder |-> EncoderNew(MaelstromEncoderNew(2, <<1, 2>>)),
      dropper |-> DropperNew(UniformDropSchedulerNew, TRUE),
      decoder |-> DecoderNew(MaelstromDecoderNew(2 * 20), NoFeedback),
      nb_packets |-> MaxPackets],
     [encoder |-> EncoderNew(TartEncoderNew(WindowStepSchedulerNew(2, 1), 2)),
      dropper |-> DropperNew(UniformDropSchedulerNew, TRUE),
      decoder |-> DecoderNew(TartDecoderNew(2), DecoderFeedbackNew(2)),
      nb_packets |-> MaxPackets]}

InitBatch ==
    \E run \in BatchRuns :
        /\ source = SourceNew
        /\ encoder = run.encoder
        /\ dropper = run.dropper
        /\ decoder = run.decoder
        /\ sink = SinkNew
        /\ nb_packets = run.nb_packets
        /\ iter = 0
        /\ pc = "source"
        /\ packets = <<>>
        /\ feedback = <<>>
        /\ result = "Running"
        /\ classes = {}
        /\ rs_delivered = {}
        /\ probe = NoProbe
        /\ twin = NoTwin

\* The source mints n packets, the encoder receives them at once.
GenBatch ==
    /\ pc = "source"
    /\ iter < nb_packets
    /\ \E n \in 1..MaxBatch :
          /\ source.id + n <= MaxPackets
          /\ source' = [source EXCEPT !.id = @ + n]
          /\ encoder' = [encoder EXCEPT
                           !.pkts = @ \o [i \in 1..n |->
                                            PacketNew(source.id + i - 1)]]
    /\ pc' = "encoder"
    /\ UNCHANGED <<dropper, decoder, sink, nb_packets, iter, packets, feedback,
                   result, classes, rs_delivered, probe, twin>>

NextBatch ==
    GenBatch \/ EncoderStep \/ DropperStep \/ DecoderStep \/ SinkStep

SpecBatch == InitBatch /\ [][NextBatch]_vars

RECURSIVE IsSubSeq(_, _)
\* Whether the Vec a is b with some of its packets left out.
IsSubSeq(a, b) ==
    IF a = <<>> THEN TRUE
    ELSE IF b = <<>> THEN FALSE
    ELSE IF Head(a) = Head(b) THEN IsSubSeq(Tail(a), Tail(b))
    ELSE IsSubSeq(a, Tail(b))

\* The ssid of the source symbol whose protection made the encoder emit a
\* repair: the last one its Maelstrom bin took in, the one before next_id for
\* Tart.
TriggerOf(repair) ==
    IF repair.fec.scheme = "Maelstrom" THEN Max(repair.fec.ssids)
    ELSE repair.id - 1

\* C22: Encoder::forw outputs the source packets in their input order and each
\* repair right after the source packet that made the encoder generate it,
\* before the next source packet; Dropper::forw and Decoder::forw keep the
\* relative order of the packets they forward.
C22_ForwKeepsOrder ==
    [][/\ (pc = "encoder" /\ pc' = "dropper") =>
             /\ Ids(OfTag(packets', "Source")) = Ids(encoder.pkts)
             /\ packets'[1].fec.tag = "Source"
             /\ \A j \in DOMAIN packets' :
                    packets'[j].fec.tag = "Repair" =>
                        LET i == Max({x \in 1..j : packets'[x].fec.tag = "Source"})
                        IN packets'[i].fec.ssid = TriggerOf(packets'[j])
       /\ pc = "dropper" => IsSubSeq(packets', dropper.pkts)
       /\ (pc = "decoder" /\ pc' = "sink") =>
             NotRecovered(packets')
                = [i \in DOMAIN OfTag(decoder.pkts, "Source") |->
                     [OfTag(decoder.pkts, "Source")[i] EXCEPT !.fec = FecNone]]]_vars

\* The dropper was handed three source packets and repairs among them, dropped
\* some of the batch, and forwarded two source packets with a repair between
\* them.
C22_Witness ==
    /\ pc = "decoder"
    /\ dropper.nb_drop >= 1
    /\ \E i, j, k \in DOMAIN packets :
          /\ i < j /\ j < k
          /\ packets[i].fec.tag = "Source"
          /\ packets[j].fec.tag = "Repair"
          /\ packets[k].fec.tag = "Source"
    /\ encoder.nb_ss = source.id
    /\ iter = 0
    /\ source.id = 3

(***************************************************************************)
(* A MaelstromDecoder called directly, with room for several equations.     *)
(* probe is the last call: the Vec it returned, and the packets of that Vec *)
(* in the order in which the call recovered them.                           *)
(***************************************************************************)
InitCascade ==
    /\ source = SourceNew
    /\ encoder = NoNodesRun.encoder
    /\ dropper = NoNodesRun.dropper
    /\ decoder = DecoderNew(MaelstromDecoderNew(MaxCapacity), NoFeedback)
    /\ sink = SinkNew
    /\ nb_packets = 0
    /\ iter = 0
    /\ pc = "done"
    /\ packets = <<>>
    /\ feedback = <<>>
    /\ result = "Ok"
    /\ classes = {}
    /\ rs_delivered = {}
    /\ probe = [call |-> "None", err |-> "Ok", recovered |-> <<>>,
                order |-> <<>>]
    /\ twin = NoTwin

\* decoder.recv_ss(&pkt) on the source symbol of one of the ssids
\* 0..MaxCallSsid + 1.
CascadeRecvSs ==
    /\ \E i \in 0..(MaxCallSsid + 1) :
          LET pkt == AddFecMetadata(PacketNew(i), FecSourceMaelstrom(i)).pkt
          IN \E r \in MaelstromRecvSs(decoder.fec, pkt) :
              \E v \in Orders(r.recovered) :
                  /\ decoder' = [decoder EXCEPT !.fec = r.dec]
                  /\ probe' = [call |-> "recv_ss", err |-> r.err, recovered |-> v,
                               order |-> r.order]
    /\ UNCHANGED <<source, encoder, dropper, sink, nb_packets, iter, pc,
                   packets, feedback, result, classes, rs_delivered,
                   twin>>

\* decoder.recv_rs(&pkt) on a repair symbol of these source symbols: the one
\* of a bin of window 1, or of a bin of window 2 of a layer of l bins.
CascadeRecvRs ==
    /\ \E a \in 0..(MaxCallSsid + 1), l \in 0..MaxRsCalls :
          LET S == {a, a + l} \cap (0..(MaxCallSsid + 1))
              pkt == AddFecMetadata(XorPackets(Originals(S)),
                                    FecRepairMaelstrom(S)).pkt
          IN \E r \in MaelstromRecvRs(decoder.fec, pkt) :
              \E v \in Orders(r.recovered) :
                  /\ r.dec.eq_id <= MaxRsCalls + 1
                  /\ decoder' = [decoder EXCEPT !.fec = r.dec]
                  /\ probe' = [call |-> "recv_rs", err |-> r.err, recovered |-> v,
                               order |-> r.order]
    /\ UNCHANGED <<source, encoder, dropper, sink, nb_packets, iter, pc,
                   packets, feedback, result, classes, rs_delivered,
                   twin>>

NextCascade == CascadeRecvSs \/ CascadeRecvRs

SpecCascade == InitCascade /\ [][NextCascade]_vars

\* C23: when one decoder call recovers several packets, the recovered packets
\* come out in the order in which the decoder completed their recovery.
C23_RecoveredInCompletionOrder ==
    probe.call \in {"recv_ss", "recv_rs"} => probe.recovered = probe.order

\* A call recovered two packets.
C23_Witness ==
    /\ probe.call \in {"recv_ss", "recv_rs"}
    /\ Len(probe.order) >= 2

(***************************************************************************)
(* A decoder without a codec and with feedback, fed the source symbols that *)
(* survive a loss pattern: between two symbols that arrive, lost symbols    *)
(* are missing.  source.id is the id of the next symbol sent; probe is the  *)
(* symbol that arrived last.                                                 *)
(***************************************************************************)
\* The feedback frequencies of the decoders.
Frequencies == {0, 1, MaxFeedbacks + 1, BitmapSize + 1}

\* How many symbols in a row are lost before one arrives.
Losses == (0..MaxDrops) \cup {BitmapSize - 1, BitmapSize}

InitFeedback ==
    /\ source = SourceNew
    /\ encoder = NoNodesRun.encoder
    /\ dropper = NoNodesRun.dropper
    /\ \E f \in Frequencies :
          decoder = DecoderNew(FecDecoderNone, DecoderFeedbackNew(f))
    /\ sink = SinkNew
    /\ nb_packets = MaxTotal
    /\ iter = 0
    /\ pc = "source"
    /\ packets = <<>>
    /\ feedback = <<>>
    /\ result = "Running"
    /\ classes = {}
    /\ rs_delivered = {}
    /\ probe = [id |-> NoneU64, relative_id |-> 0, err |-> "Ok"]
    /\ twin = NoTwin

\* lost symbols are dropped, the next one reaches the decoder: Decoder::recv
\* and Decoder::forw on it.
FeedbackArrival ==
    /\ pc = "source"
    /\ iter < nb_packets
    /\ \E lost \in Losses :
          LET id == source.id + lost
              pkt == AddFecMetadata(PacketNew(id), FecSourceMaelstrom(id)).pkt
          IN /\ source' = [source EXCEPT !.id = id + 1]
             /\ probe' = [id |-> id,
                          relative_id |-> id - decoder.feedback.last_feedback,
                          err |-> FeedbackRecvSs(decoder.feedback, id).err]
             /\ \E o \in DecoderForw([decoder EXCEPT !.pkts = <<pkt>>]) :
                   /\ decoder' = o.dec
                   /\ packets' = o.out
                   /\ feedback' = o.feedback
                   /\ pc' = IF o.err = "Ok" THEN "source" ELSE "done"
                   /\ result' = IF o.err = "Ok" THEN result ELSE o.err
    /\ iter' = iter + 1
    /\ UNCHANGED <<encoder, dropper, sink, nb_packets, classes, rs_delivered,
                   twin>>

SpecFeedback == InitFeedback /\ [][FeedbackArrival]_vars

\* C24: whatever the frequency and the loss pattern, DecoderFeedback::recv_ss
\* either returns FeedbackIdTooBig or sets a bit whose index is within
\* 0..1023: an id that is not refused never reaches outside the bitmap.
C24_BitIndexInBitmap ==
    probe.id # NoneU64 =>
        \/ probe.err = "FeedbackIdTooBig"
        \/ probe.relative_id \in 0..(BitmapSize - 1)

\* What C25 says of the symbol that arrived, lost being the number of lost
\* symbols it expects in the record for a gap delta and a bitmap of popcount
\* bits.
FeedbackContract(Lost(_, _)) ==
    LET fb == decoder.feedback
        i == probe'.id
        delta == probe'.relative_id
        bits == fb.bitmap \cup {delta}
    IN probe'.err = "Ok" =>
          /\ delta >= fb.frequency =>
                /\ feedback' = <<<<Lost(delta, Cardinality(bits)), delta>>>>
                /\ decoder'.feedback.bitmap = {}
                /\ decoder'.feedback.last_feedback = i
          /\ delta < fb.frequency =>
                /\ feedback' = <<>>
                /\ decoder'.feedback.last_feedback = fb.last_feedback
                /\ decoder'.feedback.bitmap = bits
          /\ fb.frequency >= 1 =>
                i - decoder'.feedback.last_feedback < fb.frequency

PlainSub(delta, popcount) == delta - popcount

C26_LiveSetIsWindow ==
    (encoder.fec.kind = "Maelstrom" /\ encoder.fec.ssid >= 1) =>
        LET n == encoder.fec.ssid - 1
            W == encoder.fec.max_wnd
        IN {p.id : p \in encoder.fec.pkts} = {i \in 0..n : i > n - W}

\* The live equations of the Maelstrom decoder, a map from key to equation.
Equations == decoder.fec.equations

\* C27: every equation of the Maelstrom decoder's live map is stored under the
\* key that is its own id, and no two equations share an id.
C27_KeyIsEquationId ==
    decoder.fec.kind = "Maelstrom" =>
        /\ \A k \in DOMAIN Equations : Equations[k].id = k
        /\ \A j, k \in DOMAIN Equations :
              Equations[j].id = Equations[k].id => j = k

\* The ids of the packets the Maelstrom decoder received or recovered.
Known == DOMAIN decoder.fec.pkts

\* C28: when MaelstromDecoder::recv_ss returns, every equation that became
\* Redundant during the call, the solved ones included, has been deleted: no
\* equation with need = recv is left in the live map.
C28_NoRedundantLeft ==
    probe.call = "recv_ss" =>
        \A k \in DOMAIN Equations :
            Equations[k].need_ssid # Equations[k].recv_ssid

\* C29: recv_ss and recv_rs take an equation out of the live map only if all
\* the ssids it needs have been received or recovered.
C29_OnlyCompleteRemoved ==
    [][\A k \in DOMAIN Equations :
          (k \notin DOMAIN Equations' \/ Equations'[k].id # Equations[k].id)
              => Equations[k].need_ssid \subseteq Known']_vars

DropRuns ==
    {[encoder |-> EncoderNew(MaelstromEncoderNew(2, <<1, 2>>)),
      dropper |-> DropperNew(SpecificDropSchedulerNew(BurstTwoCycle, drops),
                             FALSE),
      decoder |-> DecoderNew(MaelstromDecoderNew(2 * 20), NoFeedback),
      nb_packets |-> MaxPackets] :
     drops \in {d \in SUBSET (0..(2 * MaxPackets - 2)) :
                  Cardinality(d) <= MaxDrops + 1}}

InitDrops ==
    \E run \in DropRuns :
        /\ source = SourceNew
        /\ encoder = run.encoder
        /\ dropper = run.dropper
        /\ decoder = run.decoder
        /\ sink = SinkNew
        /\ nb_packets = run.nb_packets
        /\ iter = 0
        /\ pc = "source"
        /\ packets = <<>>
        /\ feedback = <<>>
        /\ result = "Running"
        /\ classes = {}
        /\ rs_delivered = {}
        /\ probe = NoProbe
        /\ twin = NoTwin

SpecDrops == InitDrops /\ [][Next]_vars

\* C31: inside MaelstromDecoder::recv_ss, the value handed to the remaining
\* equations after an equation was solved for the missing ssid u is u, so that
\* when the call returns every live equation that needs a recovered u has u in
\* its recv set.
C31_RecoveredSsidPropagated ==
    decoder.fec.kind = "Maelstrom" =>
        \A k \in DOMAIN Equations : \A u \in Equations[k].need_ssid :
            (u \in Known /\ decoder.fec.pkts[u].recovered # NoneU64)
                => u \in Equations[k].recv_ssid

\* The ssids of the repair of the last call that the decoder had neither
\* received nor recovered when the call began.
MissingBefore == probe.pkt.fec.ssids \ DOMAIN probe.before.pkts

\* The keys the last call added to the live map.
NewKeys == DOMAIN Equations \ DOMAIN probe.before.equations

\* C32: recv_rs on an accepted repair adds an equation to the live map iff at
\* least two of its ssids are missing from the received packets; with none
\* missing it changes the equation counter only and returns nothing; with
\* exactly one missing it inserts nothing and returns the recovered packet.
C32_RepairByMissingCount ==
    (probe.call = "recv_rs" /\ probe.err = "Ok") =>
        /\ Cardinality(MissingBefore) >= 2 <=>
               \E k \in NewKeys :
                   Equations[k].need_ssid = probe.pkt.fec.ssids
        /\ NewKeys # {} => Cardinality(NewKeys) = 1
        /\ Cardinality(MissingBefore) = 0 =>
               /\ decoder.fec = [probe.before EXCEPT !.eq_id = @ + 1]
               /\ probe.recovered = {}
        /\ Cardinality(MissingBefore) = 1 =>
               \E rec \in probe.recovered : {rec.id} = MissingBefore

\* A repair with exactly one missing ssid came in and a packet went out.
C32_Witness ==
    /\ probe.call = "recv_rs" /\ probe.err = "Ok"
    /\ Cardinality(MissingBefore) = 1
    /\ Cardinality(probe.pkt.fec.ssids) >= 2
    /\ probe.recovered # {}
    /\ NewKeys = {}

\* C33: MaelstromEncoder::protect_symbol gives out the ssids 0, 1, 2, ... in
\* call order, and puts each ssid s into exactly one bin of every layer i, the
\* bin of index s mod L_i, and into no other bin.
C33_SsidInOneBinPerLayer ==
    [][(pc = "encoder" /\ encoder.fec.kind = "Maelstrom") =>
          LET s == encoder.fec.ssid
              old == encoder.fec.interleaves
              new == encoder'.fec.interleaves
          IN /\ s = encoder.nb_ss
             /\ encoder'.fec.ssid = s + 1
             /\ packets'[1].fec = FecSourceMaelstrom(s)
             /\ \A i \in DOMAIN old : \A b \in DOMAIN old[i] :
                   IF b - 1 = s % Len(old[i])
                   THEN \/ new[i][b] = [old[i][b] EXCEPT !.symbols = @ \cup {s}]
                        \/ /\ new[i][b].symbols = {}
                           /\ new[i][b].nb_rs = old[i][b].nb_rs + 1
                           /\ \E j \in DOMAIN packets' :
                                 /\ packets'[j].fec.tag = "Repair"
                                 /\ packets'[j].fec.ssids
                                      = old[i][b].symbols \cup {s}
                   ELSE new[i][b] = old[i][b]]_vars

\* The fourth packet went through an encoder of one layer of three bins: the
\* first bin holds the ssids 0 and 3, the second ssid 1 alone.
C33_Witness ==
    /\ pc = "dropper"
    /\ encoder.fec.kind = "Maelstrom"
    /\ encoder.fec.ssid = 4
    /\ Len(encoder.fec.interleaves) = 1
    /\ Len(encoder.fec.interleaves[1]) = 3
    /\ encoder.fec.interleaves[1][2].symbols = {1}
    /\ encoder.fec.interleaves[1][1].symbols = {0, 3}

(***************************************************************************)
(* A FecEncoder called directly: protect_symbol and generate_rs in any      *)
(* order, on the packets of a source and on packets that carry metadata     *)
(* already.  probe is the last call, its Result and the repairs returned.   *)
(***************************************************************************)
InitEnc ==
    /\ source = SourceNew
    /\ \E fec \in {MaelstromEncoderNew(w, l) :
                      w \in 1..MaxCapacity, l \in {<<2>>, <<1, 2>>}}
                  \cup {TartEncoderNew(WindowStepSchedulerNew(MaxCapacity, step),
                                       MaxCapacity) : step \in 0..MaxCapacity} :
          encoder = EncoderNew(fec)
    /\ dropper = NoNodesRun.dropper
    /\ decoder = NoNodesRun.decoder
    /\ sink = SinkNew
    /\ nb_packets = MaxPackets
    /\ iter = 0
    /\ pc = "done"
    /\ packets = <<>>
    /\ feedback = <<>>
    /\ result = "Ok"
    /\ classes = {}
    /\ rs_delivered = {}
    /\ probe = [call |-> "None", err |-> "Ok", out |-> <<>>]
    /\ twin = NoTwin

\* fec.protect_symbol(&mut pkt) on the next packet of the source, fresh or
\* with source metadata on it.
CallProtectSymbol ==
    /\ source.id < nb_packets
    /\ \E pkt \in {SourceGen(source),
                    [SourceGen(source) EXCEPT !.fec = FecSourceMaelstrom(0)]} :
          LET r == FecProtectSymbol(encoder.fec, pkt)
          IN /\ encoder' = [encoder EXCEPT !.fec = r.enc]
             /\ probe' = [call |-> "protect_symbol", err |-> r.err,
                          out |-> <<r.pkt>>]
    /\ source' = [source EXCEPT !.id = @ + 1]
    /\ UNCHANGED <<dropper, decoder, sink, nb_packets, iter, pc, packets,
                   feedback, result, classes, rs_delivered, twin>>

\* fec.generate_rs()
CallGenerateRs ==
    /\ LET r == FecGenerateRs(encoder.fec)
       IN /\ encoder' = [encoder EXCEPT !.fec = r.enc]
          /\ probe' = [call |-> "generate_rs", err |-> r.err, out |-> r.out]
    /\ UNCHANGED <<source, dropper, decoder, sink, nb_packets, iter, pc,
                   packets, feedback, result, classes, rs_delivered, twin>>

NextEnc == CallProtectSymbol \/ CallGenerateRs

SpecEnc == InitEnc /\ [][NextEnc]_vars

RECURSIVE BinPositions(_, _)
\* The bins <<layer, index>> of the layers i, i + 1, ..., layer by layer and
\* by index within a layer.
BinPositions(interleaves, i) ==
    IF i > Len(interleaves) THEN <<>>
    ELSE [b \in 1..Len(interleaves[i]) |-> <<i, b>>]
         \o BinPositions(interleaves, i + 1)

RECURSIVE SumNbRs(_, _)
\* MaelstromEncoder::get_nb_rs read off the bins listed in positions.
SumNbRs(interleaves, positions) ==
    IF positions = <<>> THEN 0
    ELSE interleaves[Head(positions)[1]][Head(positions)[2]].nb_rs
         + SumNbRs(interleaves, Tail(positions))

\* The bins that hold at least W ssids before the step, in visiting order.
FullBins ==
    SelectSeq(BinPositions(encoder.fec.interleaves, 1),
              LAMBDA x : Cardinality(encoder.fec.interleaves[x[1]][x[2]].symbols)
                            >= encoder.fec.max_wnd)

\* C34: MaelstromEncoder::generate_rs returns the repairs by layer in declared
\* order and by bin index within a layer, exactly one for each bin that holds
\* at least W ssids and none for another bin; it leaves the other bins as
\* they are and raises the counters of the firing bins only, so that
\* get_nb_rs grows by the number of repairs returned and by nothing else.
C34_RepairsInBinOrder ==
    [][encoder.fec.kind = "Maelstrom" =>
          LET old == encoder.fec.interleaves
              new == encoder'.fec.interleaves
              all == BinPositions(old, 1)
          IN IF probe'.call = "generate_rs"
             THEN /\ probe'.err = "Ok"
                  /\ Len(probe'.out) = Len(FullBins)
                  /\ \A j \in DOMAIN FullBins :
                        /\ probe'.out[j].fec.tag = "Repair"
                        /\ probe'.out[j].fec.ssids
                             = old[FullBins[j][1]][FullBins[j][2]].symbols
                  /\ \A j \in DOMAIN all :
                        LET i == all[j][1]
                            b == all[j][2]
                        IN IF \E k \in DOMAIN FullBins : FullBins[k] = all[j]
                           THEN new[i][b] = [old[i][b] EXCEPT
                                               !.symbols = {}, !.nb_rs = @ + 1]
                           ELSE new[i][b] = old[i][b]
                  /\ SumNbRs(new, all) = SumNbRs(old, all) + Len(probe'.out)
             ELSE SumNbRs(new, all) = SumNbRs(old, all)]_vars

\* generate_rs returned three repairs at once: the one of the only bin of the
\* first layer, then those of the two bins of the second.
C34_Witness ==
    /\ encoder.fec.kind = "Maelstrom"
    /\ probe.call = "generate_rs"
    /\ Len(probe.out) = 3
    /\ Len(encoder.fec.interleaves) = 2
    /\ probe.out[2].fec.ssids = {0, 2}
    /\ probe.out[3].fec.ssids = {1, 3}

\* C35: in the pipeline no Maelstrom bin ever holds more than W ssids, every
\* bin holds fewer than W ssids when Encoder::forw is over, and at most one
\* bin of a layer fires for a source packet.
C35_BinsBelowWindow ==
    [][MaelstromForwStep =>
          LET W == encoder.fec.max_wnd
              old == encoder.fec.interleaves
          IN /\ \A i \in DOMAIN old : \A b \in DOMAIN old[i] :
                   /\ Cardinality(old[i][b].symbols) < W
                   /\ Cardinality(EncoderAtFiring.interleaves[i][b].symbols) <= W
                   /\ Cardinality(encoder'.fec.interleaves[i][b].symbols) < W
             /\ \A i \in DOMAIN old :
                   Cardinality({x \in FiredBins : x[1] = i}) <= 1]_vars

\* A bin fired for the source packet of this tick while another bin is left
\* one ssid short of the window.
C35_Witness ==
    /\ pc = "dropper"
    /\ encoder.fec.kind = "Maelstrom"
    /\ encoder.fec.max_wnd >= 2
    /\ RepairsOf(packets) # {}
    /\ \E i \in DOMAIN encoder.fec.interleaves :
          \E b \in DOMAIN encoder.fec.interleaves[i] :
              Cardinality(encoder.fec.interleaves[i][b].symbols)
                  = encoder.fec.max_wnd - 1

\* C36: TartEncoder::generate_rs returns for every WindowStep scheduler, whatever
\* its step and the current id, and returns at most one repair.
C36_GenerateRsReturnsOneRepair ==
    (/\ probe.call = "generate_rs"
     /\ encoder.fec.kind = "Tart"
     /\ encoder.fec.scheduler.kind = "WindowStep")
        => /\ probe.err # "NoReturn"
           /\ Len(probe.out) <= 1

\* The same for the schedulers whose step is not zero.
C36_PositiveStepReturns ==
    (/\ probe.call = "generate_rs"
     /\ encoder.fec.kind = "Tart"
     /\ encoder.fec.scheduler.kind = "WindowStep"
     /\ encoder.fec.scheduler.step > 0)
        => /\ probe.err # "NoReturn"
           /\ Len(probe.out) <= 1

\* C37: a TartEncoder::protect_symbol that returns Ok and finds at least
\* max_wnd symbols protected in the kernel leaves no protected symbol with an
\* id <= next - max_wnd, next being the id of the next source symbol.
C37_WindowRetired ==
    [][(/\ CallProtectSymbol
        /\ encoder.fec.kind = "Tart"
        /\ probe'.err = "Ok"
        /\ KernelNProtectedSymbols(encoder.fec.tart) + 1 >= encoder.fec.max_wnd)
           => \A x \in DOMAIN encoder'.fec.tart.window :
                 x > TartNextId(encoder'.fec) - encoder.fec.max_wnd]_vars

\* The same for the calls after which next is above max_wnd.
C37_RetiredPastFirstWindow ==
    [][(/\ CallProtectSymbol
        /\ encoder.fec.kind = "Tart"
        /\ probe'.err = "Ok"
        /\ KernelNProtectedSymbols(encoder.fec.tart) + 1 >= encoder.fec.max_wnd
        /\ TartNextId(encoder'.fec) > encoder.fec.max_wnd)
           => \A x \in DOMAIN encoder'.fec.tart.window :
                 x > TartNextId(encoder'.fec) - encoder.fec.max_wnd]_vars

\* C38: a protect_symbol call that fails with FecDoubleMetadata leaves the
\* FecEncoder as it was before the call, whatever the variant.
C38_FailedProtectChangesNothing ==
    [][(CallProtectSymbol /\ probe'.err = "FecDoubleMetadata")
          => encoder'.fec = encoder.fec]_vars

\* The same for the Maelstrom encoder alone.
C38_MaelstromUnchanged ==
    [][(/\ CallProtectSymbol
        /\ probe'.err = "FecDoubleMetadata"
        /\ encoder.fec.kind = "Maelstrom")
          => encoder'.fec = encoder.fec]_vars

\* The number of source ids of (last_anchor, i] that did not reach the decoder
\* when symbol i arrives: the symbols arrive once and in order, so the ones of
\* the interval that arrived before i are the bits 1, 2, ... of the bitmap (bit
\* 0 is the anchor itself).
LostSinceAnchor ==
    LET delta == probe'.relative_id
        arrived == {b \in decoder.feedback.bitmap \cup {delta} : b >= 1}
    IN delta - Cardinality(arrived)

\* C39: every record (lost, total) the decoder node emits has lost equal to the
\* number of source ids of (last_anchor, i] that it did not receive, and
\* lost <= total, the first record of a run with source id 0 received included.
C39_LostCountsMissingIds ==
    [][(probe'.err = "Ok" /\ feedback' # <<>>)
          => /\ feedback'[1][1] = LostSinceAnchor
             /\ feedback'[1][1] <= feedback'[1][2]]_vars

\* The same for the records of the windows in which the anchor itself did not
\* arrive as a symbol of the window.
C39_LostWithoutAnchorBit ==
    [][(probe'.err = "Ok" /\ feedback' # <<>> /\ 0 \notin decoder.feedback.bitmap
        /\ probe'.relative_id >= 1)
          => /\ feedback'[1][1] = LostSinceAnchor
             /\ feedback'[1][1] <= feedback'[1][2]]_vars

\* C40: MaelstromDecoder::recv_ss on a packet without Maelstrom source
\* metadata, and recv_rs on a packet without Maelstrom repair metadata or with
\* an empty ssid list, return FecWrongMetadata, recover nothing and leave the
\* equations, the received packets, max_ssid and the equation counter as they
\* were; no other call returns FecWrongMetadata.
C40_WrongMetadataChangesNothing ==
    LET fec == probe.pkt.fec
        wrong == \/ /\ probe.call = "recv_ss"
                    /\ ~(fec.tag = "Source" /\ fec.scheme = "Maelstrom")
                 \/ /\ probe.call = "recv_rs"
                    /\ \/ ~(fec.tag = "Repair" /\ fec.scheme = "Maelstrom")
                       \/ fec.ssids = {}
    IN /\ wrong <=> probe.err = "FecWrongMetadata"
       /\ wrong =>
             /\ decoder.fec.equations = probe.before.equations
             /\ decoder.fec.pkts = probe.before.pkts
             /\ decoder.fec.max_ssid = probe.before.max_ssid
             /\ decoder.fec.eq_id = probe.before.eq_id
             /\ probe.recovered = {}

\* recv_rs refused a repair with an empty ssid list at a decoder that holds an
\* equation and packets.
C40_Witness ==
    /\ probe.call = "recv_rs"
    /\ probe.pkt.fec.tag = "Repair"
    /\ probe.pkt.fec.ssids = {}
    /\ probe.err = "FecWrongMetadata"
    /\ DOMAIN probe.before.equations # {}
    /\ DOMAIN probe.before.pkts # {}
    /\ probe.before.eq_id >= 1

\* recv_ss refused a repair packet at a decoder that holds packets.
C40_WitnessRecvSs ==
    /\ probe.call = "recv_ss"
    /\ probe.pkt.fec.tag = "Repair"
    /\ probe.err = "FecWrongMetadata"
    /\ DOMAIN probe.before.pkts # {}

=============================================================================
